---- MODULE Spec2Model ----
(***************************************************************************)
(* Verification model of the job agent (js_ext_scrap_universal):           *)
(*   - StateLock (src/stateLock.js): the two-tier lock, its in-process     *)
(*     cache (memoryLocks) and the durable store (chrome.storage.local);   *)
(*   - pollServer's use of the 'polling' lock (background script);         *)
(*   - processUrl, the job executor with its hard timeout and cleanup.     *)
(* Every await of the source is a separate step; the code between two      *)
(* awaits is one atomic action (single-threaded event loop per instance).  *)
(*                                                                         *)
(* Time.  The lock code uses a timestamp only in `Date.now() - timestamp   *)
(* < timeout`, so an entry {id, timestamp} is kept as {id, age} with       *)
(* age = Date.now() - timestamp; Tick lets TickMs of wall-clock time pass  *)
(* and ages every entry.  An age stops growing at the timeout (beyond it   *)
(* every comparison of the code has the same outcome).                     *)
(***************************************************************************)
EXTENDS Integers, Naturals, Sequences, FiniteSets, TLC

(***************************************************************************)
(* Bounds of the model (not program constants).                            *)
(***************************************************************************)
TickMs == 2500
MaxTokens == 4
JobTickMs == 240000
MaxJobs == 1
NetTickMs == 100
MaxReqs == 3
MaxPageHeight == 6
MaxViewport == 3
MaxTiles == 3
MaxTileSide == 2
MaxRetriesArg == 3
MaxDelayArg == 3

(***************************************************************************)
(* Program constants.                                                      *)
(***************************************************************************)
DefaultTimeout == 5000
PollMaxRetries == 3
PollRetryDelay == 1000
PROCESSING_TIMEOUT == 480000
NetworkTimeout == 30000
QuietPeriod == 2000
CheckInterval == 100
MaxActiveRequests == 2
LogPeriod == 5000

(* Callers are two concurrent async call chains.  They run either in the   *)
(* same agent instance or in two agent instances (instOf, fixed at start). *)
(* Instances share the durable store and have one memoryLocks map each.    *)
Callers == 1..2
Instances == 1..2

(* A lock entry; id 0 stands for "no entry".                               *)
NoLock == [id |-> 0, age |-> 0]

Min(a, b) == IF a < b THEN a ELSE b

VARIABLES
    instOf,         \* per caller: the agent instance it runs in
    store,          \* chrome.storage.local[lock_polling]
    memoryLocks,    \* per instance: StateLock.memoryLocks.get('polling')
    nextToken,      \* source of fresh lockIds (`${Date.now()}-${Math.random()}`)
    pc,             \* per caller: the await it is suspended at
    op,             \* per caller: the top-level operation in progress / last run
    lockId,         \* per caller: lockId of the running acquireLock / releaseLock
    held,           \* per caller: token the caller got from its last acquire
    attempt,        \* per caller: loop index i of tryAcquireLock
    waited,         \* per caller: time spent in the retry delay of tryAcquireLock
    fnRes,          \* per caller: how fn of withLock / the poll body ended
    ret,            \* per caller: what the last top-level operation returned
    relCount,       \* per caller: releaseLock invocations of the running operation
    wrote,          \* per caller: the running operation wrote the durable record
    alone,          \* per caller: no other caller took a lock step since the call began
    staleAtCall,    \* per caller: which stale entries existed when the call began
    snapMem         \* per caller: own instance's cache entry when the call began (aged along)

lockVars == <<instOf, store, memoryLocks, nextToken, pc, op, lockId, held, attempt,
              waited, fnRes, ret, relCount, wrote, alone, staleAtCall, snapMem>>

(* The job executor (processUrl) of one agent instance.                    *)
VARIABLES
    states,         \* chrome.storage.local: state_<resource> of StateLock.setState
    isProcessing,   \* module flag isProcessing
    saved,          \* chrome.storage.local.isProcessing written by saveState
    job             \* per processUrl call: its continuation, pipeline, timer, tab

jobVars == <<states, isProcessing, saved, job>>

(* The NetworkRequestTracker of one agent instance and the                 *)
(* waitForNetworkIdle call that waitForTabLoad makes for the job's tab.    *)
VARIABLES
    targetUrls,     \* NetworkRequestTracker.targetUrls: tab -> origin ("none": no entry)
    activeRequests, \* NetworkRequestTracker.activeRequests: tab -> [has, ids]
    wait,           \* the waitForNetworkIdle call: promise, interval, clocks
    started,        \* per tab: ids with a same-origin start and no same-origin end since
    obsRun          \* time since the first of the latest unbroken run of checks that
                    \* all saw count <= maxActiveRequests (-1: the last check saw more)

netVars == <<targetUrls, activeRequests, wait, started, obsRun>>

(* The polling loop: startContinuousPolling and the body of pollServer.    *)
VARIABLES
    isContinuousPolling, \* per instance: the module flag isContinuousPolling
    loop,                \* per caller: its invocation of startContinuousPolling
    released             \* jobs whose pollServer has returned from releaseLock

loopVars == <<isContinuousPolling, loop, released>>

(* The backup alarm (chrome.alarms.onAlarm listener) of one agent instance *)
VARIABLES
    alarm,          \* the running invocation of the listener: its await, what it read
    procAge         \* Date.now() - startTime of the stored processing record

alarmVars == <<alarm, procAge>>

(* The waitForTabLoad call of the job's pipeline                           *)
VARIABLE
    tabLoad         \* its onUpdated listener, its page-load timer, what it started

(* The full-page capture: the content script's takeScreenshot handler and  *)
(* captureFullPage                                                         *)
VARIABLE
    shot,           \* the capture loop, its tiles, the response, the composed result
    canvas          \* the OffscreenCanvas of captureFullPage and what was drawn on it

(* A tryAcquireLock call with its arguments                                *)
VARIABLE
    tryLock         \* its loop index, the acquireLock calls and delays it made

(* updateState(resource, updateFn) calls of the callers on one resource    *)
VARIABLE
    upd             \* the stored state of the resource and what each call read

(* The stop_polling request of the popup and the backup alarm it clears    *)
VARIABLE
    stopCtl         \* whether the alarm is scheduled, whether a stop was handled

vars == <<lockVars, jobVars, netVars, loopVars, alarmVars, tabLoad, shot, canvas, tryLock, upd, stopCtl>>

----
(***************************************************************************)
(* StateLock                                                               *)
(***************************************************************************)

(* Mutant: an entry never expires                                          *)
IsFresh_NoExpiry(entry, timeout) == entry.id # 0

(* Mutant: an entry never blocks                                           *)
IsFresh_Never(entry, timeout) == FALSE

(* age < timeout test of acquireLock (lines 32-34 and 65-67)               *)
IsFresh(entry, timeout) == entry.id # 0 /\ entry.age < timeout

(* Mutant: release whenever a record exists, whoever owns it               *)
OwnsStorageLock_AnyRecord(token) == store.id # 0

(* Ownership test of releaseLock, line 134                                 *)
OwnsStorageLock(token) == store.id # 0 /\ store.id = token

(* Memory-lock removal of releaseLock, lines 125-128                       *)
ReleaseMemory(entry, token) ==
    IF entry.id # 0 /\ entry.id = token THEN NoLock ELSE entry

(* Mutant: withLock runs fn even when acquireLock returned null            *)
AfterAcquire_NoFailFast(o, i, tok) ==
    CASE o = "acquire" ->
           [pc |-> "idle", ret |-> IF tok = 0 THEN "null" ELSE "token"]
      [] o = "withLock" ->
           [pc |-> "fn", ret |-> "none"]
      [] OTHER ->
           IF tok # 0
           THEN [pc |-> "cs", ret |-> "none"]
           ELSE IF i < PollMaxRetries - 1
                THEN [pc |-> "retry_wait", ret |-> "none"]
                ELSE [pc |-> "idle", ret |-> "skip"]

(* What the caller does when acquireLock hands back tok (0 = null):        *)
(*   "acquire"  : the bare call returns                                    *)
(*   "withLock" : lines 192-200, throw when null, else run fn              *)
(*   "poll"     : tryAcquireLock lines 165-188 and pollServer 1007-1014    *)
AfterAcquire(o, i, tok) ==
    CASE o = "acquire" ->
           [pc |-> "idle", ret |-> IF tok = 0 THEN "null" ELSE "token"]
      [] o = "withLock" ->
           IF tok = 0
           THEN [pc |-> "idle", ret |-> "acquire_error"]
           ELSE [pc |-> "fn", ret |-> "none"]
      [] OTHER ->
           IF tok # 0
           THEN [pc |-> "cs", ret |-> "none"]
           ELSE IF i < PollMaxRetries - 1
                THEN [pc |-> "retry_wait", ret |-> "none"]
                ELSE [pc |-> "idle", ret |-> "skip"]

(* c takes a lock step: every other caller is no longer alone.             *)
Interfere(c) == [d \in Callers |-> IF d = c THEN alone[c] ELSE FALSE]

(* acquireLock lines 22-61: the synchronous prefix up to the storage get.  *)
AcquireEntry(c, o, i) ==
    LET inst == instOf[c]
        k == AfterAcquire(o, i, 0)
    IN  /\ nextToken <= MaxTokens
        /\ nextToken' = nextToken + 1
        /\ op' = [op EXCEPT ![c] = o]
        /\ waited' = [waited EXCEPT ![c] = 0]
        /\ IF IsFresh(memoryLocks[inst], DefaultTimeout)
           THEN /\ memoryLocks' = memoryLocks
                /\ lockId' = [lockId EXCEPT ![c] = 0]
                /\ pc' = [pc EXCEPT ![c] = k.pc]
                /\ ret' = [ret EXCEPT ![c] = k.ret]
                /\ attempt' = [attempt EXCEPT ![c] = IF k.pc = "idle" THEN 0 ELSE i]
           ELSE /\ memoryLocks' = [memoryLocks EXCEPT ![inst] =
                                      [id |-> nextToken, age |-> 0]]
                /\ lockId' = [lockId EXCEPT ![c] = nextToken]
                /\ pc' = [pc EXCEPT ![c] = "acq_get"]
                /\ ret' = [ret EXCEPT ![c] = "none"]
                /\ attempt' = [attempt EXCEPT ![c] = i]
        /\ UNCHANGED <<instOf, store>>

(* Bookkeeping when a top-level call begins.                               *)
BeginCall(c) ==
    /\ alone' = [d \in Callers |->
                   IF d = c THEN \A e \in Callers \ {c} : pc[e] \in {"idle", "cs", "fn"}
                   ELSE FALSE]
    /\ staleAtCall' = [staleAtCall EXCEPT ![c] =
          IF store.id # 0 /\ store.age >= DefaultTimeout
          THEN IF memoryLocks[instOf[c]].id # 0 THEN "store_and_cache" ELSE "store"
          ELSE "no"]
    /\ snapMem' = [snapMem EXCEPT ![c] =
          [id |-> memoryLocks[instOf[c]].id, age |-> memoryLocks[instOf[c]].age,
           stale |-> memoryLocks[instOf[c]].id # 0
                     /\ memoryLocks[instOf[c]].age >= DefaultTimeout]]
    /\ relCount' = [relCount EXCEPT ![c] = 0]
    /\ wrote' = [wrote EXCEPT ![c] = FALSE]
    /\ fnRes' = [fnRes EXCEPT ![c] = "none"]
    /\ held' = [held EXCEPT ![c] = 0]

(* acquireLock(resource) called on its own                                 *)
CallAcquire(c) ==
    /\ pc[c] = "idle"
    /\ AcquireEntry(c, "acquire", 0)
    /\ BeginCall(c)

(* withLock(resource, fn), line 192                                        *)
CallWithLock(c) ==
    /\ pc[c] = "idle"
    /\ AcquireEntry(c, "withLock", 0)
    /\ BeginCall(c)

(* pollServer, line 1007: tryAcquireLock('polling', 3, 1000), first attempt *)
CallPollServer(c) ==
    /\ pc[c] = "idle"
    /\ AcquireEntry(c, "poll", 0)
    /\ BeginCall(c)

(* tryAcquireLock line 177: the retry delay has elapsed, next attempt      *)
RetryAcquire(c) ==
    /\ pc[c] = "retry_wait"
    /\ waited[c] >= PollRetryDelay
    /\ AcquireEntry(c, "poll", attempt[c] + 1)
    /\ alone' = Interfere(c)
    /\ UNCHANGED <<held, fnRes, relCount, wrote, staleAtCall, snapMem>>

(* Mutant: a blocked attempt keeps its provisional memory lock             *)
AcquireCheckStorage_NoRollback(c) ==
    LET inst == instOf[c]
        k == AfterAcquire(op[c], attempt[c], 0)
    IN  /\ pc[c] = "acq_get"
        /\ IF IsFresh(store, DefaultTimeout)
           THEN /\ memoryLocks' = memoryLocks
                /\ lockId' = [lockId EXCEPT ![c] = 0]
                /\ pc' = [pc EXCEPT ![c] = k.pc]
                /\ ret' = [ret EXCEPT ![c] = k.ret]
                /\ attempt' = [attempt EXCEPT ![c] = IF k.pc = "idle" THEN 0 ELSE @]
           ELSE /\ pc' = [pc EXCEPT ![c] = "acq_set"]
                /\ UNCHANGED <<memoryLocks, lockId, ret, attempt>>
        /\ alone' = Interfere(c)
        /\ UNCHANGED <<instOf, store, nextToken, op, held, waited, fnRes,
                       relCount, wrote, staleAtCall, snapMem>>

(* acquireLock lines 61-87: the storage get resolved; a fresh record of    *)
(* another holder blocks (roll back the memory lock, return null), a       *)
(* missing or stale one lets the call go on to the storage set.            *)
AcquireCheckStorage(c) ==
    LET inst == instOf[c]
        k == AfterAcquire(op[c], attempt[c], 0)
    IN  /\ pc[c] = "acq_get"
        /\ IF IsFresh(store, DefaultTimeout)
           THEN /\ memoryLocks' = [memoryLocks EXCEPT ![inst] = NoLock]
                /\ lockId' = [lockId EXCEPT ![c] = 0]
                /\ pc' = [pc EXCEPT ![c] = k.pc]
                /\ ret' = [ret EXCEPT ![c] = k.ret]
                /\ attempt' = [attempt EXCEPT ![c] = IF k.pc = "idle" THEN 0 ELSE @]
           ELSE /\ pc' = [pc EXCEPT ![c] = "acq_set"]
                /\ UNCHANGED <<memoryLocks, lockId, ret, attempt>>
        /\ alone' = Interfere(c)
        /\ UNCHANGED <<instOf, store, nextToken, op, held, waited, fnRes,
                       relCount, wrote, staleAtCall, snapMem>>

(* acquireLock lines 90-103: the storage set is applied, lockId returned   *)
AcquireSetStorage(c) ==
    LET k == AfterAcquire(op[c], attempt[c], lockId[c])
    IN  /\ pc[c] = "acq_set"
        /\ store' = [id |-> lockId[c], age |-> 0]
        /\ held' = [held EXCEPT ![c] = lockId[c]]
        /\ lockId' = [lockId EXCEPT ![c] = 0]
        /\ attempt' = [attempt EXCEPT ![c] = 0]
        /\ wrote' = [wrote EXCEPT ![c] = TRUE]
        /\ pc' = [pc EXCEPT ![c] = k.pc]
        /\ ret' = [ret EXCEPT ![c] = k.ret]
        /\ alone' = Interfere(c)
        /\ UNCHANGED <<instOf, memoryLocks, nextToken, op, waited,
                       fnRes, relCount, staleAtCall, snapMem>>

(* releaseLock lines 118-132: synchronous prefix, memory lock removed only  *)
(* when its id is the supplied lockId                                      *)
ReleaseEntry(c, token) ==
    /\ memoryLocks' = [memoryLocks EXCEPT ![instOf[c]] = ReleaseMemory(@, token)]
    /\ lockId' = [lockId EXCEPT ![c] = token]
    /\ relCount' = [relCount EXCEPT ![c] = IF pc[c] = "idle" THEN 1 ELSE @ + 1]
    /\ pc' = [pc EXCEPT ![c] = "rel_get"]
    /\ alone' = Interfere(c)

(* releaseLock(resource, token) called on its own with the token the       *)
(* caller obtained earlier (possibly already released or reclaimed by now) *)
CallRelease(c) ==
    /\ pc[c] = "idle"
    /\ held[c] # 0
    /\ ReleaseEntry(c, held[c])
    /\ op' = [op EXCEPT ![c] = "release"]
    /\ ret' = [ret EXCEPT ![c] = "none"]
    /\ wrote' = [wrote EXCEPT ![c] = FALSE]
    /\ UNCHANGED <<instOf, store, nextToken, held, attempt, waited, fnRes,
                   staleAtCall, snapMem>>

(* Mutant: release after fn returned, but not in a finally                  *)
FnSettles_NoFinally(c, outcome) ==
    /\ pc[c] = "fn"
    /\ fnRes' = [fnRes EXCEPT ![c] = outcome]
    /\ IF outcome = "fn_error"
       THEN /\ pc' = [pc EXCEPT ![c] = "idle"]
            /\ ret' = [ret EXCEPT ![c] = outcome]
            /\ alone' = Interfere(c)
            /\ UNCHANGED <<memoryLocks, lockId, relCount>>
       ELSE /\ ReleaseEntry(c, held[c])
            /\ ret' = ret
    /\ UNCHANGED <<instOf, store, nextToken, op, held, attempt, waited, wrote,
                   staleAtCall, snapMem>>

(* withLock lines 200-204: fn returned or threw, finally calls releaseLock *)
FnSettles(c, outcome) ==
    /\ pc[c] = "fn"
    /\ fnRes' = [fnRes EXCEPT ![c] = outcome]
    /\ ReleaseEntry(c, held[c])
    /\ UNCHANGED <<instOf, store, nextToken, op, held, attempt, waited, ret, wrote,
                   staleAtCall, snapMem>>

(* Mutant: the release is not in a finally, an error path returns without it *)
PollBodyEnds_NoFinally(c, outcome) ==
    /\ pc[c] = "cs"
    /\ fnRes' = [fnRes EXCEPT ![c] = outcome]
    /\ IF outcome = "stop"
       THEN /\ pc' = [pc EXCEPT ![c] = "idle"]
            /\ ret' = [ret EXCEPT ![c] = outcome]
            /\ alone' = Interfere(c)
            /\ UNCHANGED <<memoryLocks, lockId, relCount>>
       ELSE /\ ReleaseEntry(c, held[c])
            /\ ret' = ret
    /\ UNCHANGED <<instOf, store, nextToken, op, held, attempt, waited, wrote,
                   staleAtCall, snapMem>>

(* pollServer lines 1019-1097: the body (fetch, processUrl) ended with     *)
(* return true / return false, finally calls releaseLock                   *)
PollBodyEnds(c, outcome) ==
    /\ pc[c] = "cs"
    /\ fnRes' = [fnRes EXCEPT ![c] = outcome]
    /\ ReleaseEntry(c, held[c])
    /\ UNCHANGED <<instOf, store, nextToken, op, held, attempt, waited, ret, wrote,
                   staleAtCall, snapMem>>

(* What the caller gets when releaseLock hands back ok                     *)
AfterRelease(c, ok) ==
    CASE op[c] = "release" -> IF ok THEN "true" ELSE "false"
      [] OTHER -> fnRes[c]

(* releaseLock lines 132-151: the storage get resolved; not the owner ->   *)
(* return false, owner -> go on to the storage remove                      *)
ReleaseCheckStorage(c) ==
    /\ pc[c] = "rel_get"
    /\ IF OwnsStorageLock(lockId[c])
       THEN /\ pc' = [pc EXCEPT ![c] = "rel_remove"]
            /\ UNCHANGED <<ret, lockId>>
       ELSE /\ pc' = [pc EXCEPT ![c] = "idle"]
            /\ ret' = [ret EXCEPT ![c] = AfterRelease(c, FALSE)]
            /\ lockId' = [lockId EXCEPT ![c] = 0]
    /\ alone' = Interfere(c)
    /\ UNCHANGED <<instOf, store, memoryLocks, nextToken, op, held, attempt,
                   waited, fnRes, relCount, wrote, staleAtCall, snapMem>>

(* releaseLock lines 136-143: the storage remove is applied, return true   *)
ReleaseRemoveStorage(c) ==
    /\ pc[c] = "rel_remove"
    /\ store' = NoLock
    /\ wrote' = [wrote EXCEPT ![c] = TRUE]
    /\ pc' = [pc EXCEPT ![c] = "idle"]
    /\ ret' = [ret EXCEPT ![c] = AfterRelease(c, TRUE)]
    /\ lockId' = [lockId EXCEPT ![c] = 0]
    /\ alone' = Interfere(c)
    /\ UNCHANGED <<instOf, memoryLocks, nextToken, op, held, attempt,
                   waited, fnRes, relCount, staleAtCall, snapMem>>

(* TickMs of wall-clock time pass: every entry ages                        *)
Older(entry) ==
    IF entry.id = 0 THEN entry
    ELSE [entry EXCEPT !.age = Min(@ + TickMs, DefaultTimeout)]

Tick ==
    /\ store' = Older(store)
    /\ memoryLocks' = [i \in Instances |-> Older(memoryLocks[i])]
    /\ snapMem' = [c \in Callers |-> Older(snapMem[c])]
    /\ waited' = [c \in Callers |->
                    IF pc[c] = "retry_wait" THEN Min(waited[c] + TickMs, PollRetryDelay)
                    ELSE waited[c]]
    /\ UNCHANGED <<instOf, nextToken, pc, op, lockId, held, attempt,
                   fnRes, ret, relCount, wrote, alone, staleAtCall>>

InitLock ==
    /\ instOf \in {[c \in Callers |-> 1], [c \in Callers |-> c]}
    /\ store = NoLock
    /\ memoryLocks = [i \in Instances |-> NoLock]
    /\ nextToken = 1
    /\ pc = [c \in Callers |-> "idle"]
    /\ op = [c \in Callers |-> "none"]
    /\ lockId = [c \in Callers |-> 0]
    /\ held = [c \in Callers |-> 0]
    /\ attempt = [c \in Callers |-> 0]
    /\ waited = [c \in Callers |-> 0]
    /\ fnRes = [c \in Callers |-> "none"]
    /\ ret = [c \in Callers |-> "none"]
    /\ relCount = [c \in Callers |-> 0]
    /\ wrote = [c \in Callers |-> FALSE]
    /\ alone = [c \in Callers |-> FALSE]
    /\ staleAtCall = [c \in Callers |-> "no"]
    /\ snapMem = [c \in Callers |-> [id |-> 0, age |-> 0, stale |-> FALSE]]

----
(***************************************************************************)
(* processUrl (background script, lines 761-917)                           *)
(***************************************************************************)
Jobs == 1..MaxJobs

(* The processUrl calls an agent instance can make: those of Jobs and the  *)
(* call that follows them                                                  *)
JobSlots == 1..(MaxJobs + 1)

(* State of one processUrl call.                                           *)
(*   main     where the async function processUrl is suspended            *)
(*   pipe     where the raced pipeline (the async IIFE) is suspended       *)
(*   timer    the setTimeout behind timeoutPromise                         *)
(*   race     state of the Promise.race                                    *)
(*   winner   which of pipeline / timer settled first                      *)
(*   tab      the variable `tab` is set                                    *)
(*   tabState the browser tab created by chrome.tabs.create                *)
(*   reported how the POST to /report_error of the catch block ended       *)
NewJob ==
    [main |-> "new", pipe |-> "none", timer |-> "unset", timerAge |-> 0,
     race |-> "pending", winner |-> "none", tab |-> FALSE, tabState |-> "none",
     outcome |-> "none", capture |-> TRUE, removeCalls |-> 0, resetCalls |-> 0,
     reports |-> 0, submits |-> 0, reported |-> "none"]

(* Mutant: processUrl awaits the pipeline only, the timer is not raced     *)
RaceSettle_IgnoreTimer(cur, new) ==
    IF new = "rej_timeout" THEN cur
    ELSE IF cur = "pending" THEN new ELSE cur

(* Promise.race (line 784): the first settlement wins                      *)
RaceSettle(cur, new) == IF cur = "pending" THEN new ELSE cur

(* finally block entry, lines 896-910: tab?.id decides on chrome.tabs.remove *)
Finally(r) ==
    IF r.tab
    THEN [r EXCEPT !.main = "remove_tab", !.removeCalls = @ + 1]
    ELSE [r EXCEPT !.main = "reset_state"]

(* processUrl resumes from the race: lines 784 -> 896 when fulfilled,      *)
(* catch block lines 867-886 (POST /report_error) when rejected            *)
Resume(r) ==
    IF r.race = "fulfilled"
    THEN Finally([r EXCEPT !.outcome = "fulfilled"])
    ELSE [r EXCEPT !.main = "report", !.outcome = r.race, !.reports = @ + 1]

(* Mutant: the rejection of the timer does not resume processUrl           *)
Settle_PipelineOnly(r, kind) ==
    IF kind = "rej_timeout" THEN r
    ELSE LET r1 == [r EXCEPT !.race = RaceSettle(@, kind),
                             !.winner = IF @ = "none" THEN kind ELSE @]
         IN  IF r.race = "pending" /\ r1.race # "pending" THEN Resume(r1) ELSE r1

(* One of the two raced promises settles with kind                         *)
Settle(r, kind) ==
    LET r1 == [r EXCEPT !.race = RaceSettle(@, kind),
                        !.winner = IF @ = "none" THEN kind ELSE @]
    IN  IF r.race = "pending" /\ r1.race # "pending" THEN Resume(r1) ELSE r1

(* pollServer dispatches the next job: processUrl lines 761-770, up to     *)
(* the await of setState('processing', ...)                                *)
StartProcessUrl(j, cap) ==
    /\ job[j].main = "new"
    /\ IF j = 1 THEN TRUE ELSE job[j - 1].main = "done"
    /\ job' = [job EXCEPT ![j].main = "set_state", ![j].capture = cap]
    /\ UNCHANGED <<states, isProcessing, saved>>

(* lines 766-772: the processing record is stored, isProcessing = true,    *)
(* saveState() is called                                                   *)
SetProcessingState(j) ==
    /\ job[j].main = "set_state"
    /\ states' = [states EXCEPT !["processing"] = j]
    /\ isProcessing' = TRUE
    /\ job' = [job EXCEPT ![j].main = "save_begin"]
    /\ UNCHANGED saved

(* lines 772-787: saveState done; the timer is armed, the pipeline starts  *)
(* with chrome.tabs.create, processUrl awaits the race                     *)
BeginRace(j) ==
    /\ job[j].main = "save_begin"
    /\ saved' = TRUE
    /\ job' = [job EXCEPT ![j].main = "race", ![j].pipe = "create",
                          ![j].timer = "armed", ![j].timerAge = 0]
    /\ UNCHANGED <<states, isProcessing>>

(* line 779: the 480000 ms timer fires and rejects timeoutPromise          *)
TimerFires(j) ==
    /\ job[j].timer = "armed"
    /\ job[j].timerAge >= PROCESSING_TIMEOUT
    /\ job' = [job EXCEPT ![j] = Settle([@ EXCEPT !.timer = "fired"], "rej_timeout")]
    /\ UNCHANGED <<states, isProcessing, saved>>

(* lines 787-793: chrome.tabs.create resolved (tab assigned, target set,   *)
(* waitForTabLoad started) or rejected                                     *)
TabCreated(j, ok) ==
    /\ job[j].pipe = "create"
    /\ job' = [job EXCEPT ![j] =
                 IF ok THEN [@ EXCEPT !.pipe = "load", !.tab = TRUE, !.tabState = "open"]
                 ELSE Settle([@ EXCEPT !.pipe = "rejected"], "rej_pipeline")]
    /\ UNCHANGED <<states, isProcessing, saved>>

(* lines 790-796: waitForTabLoad resolved (extraction message sent), or    *)
(* the pipeline threw here (setTargetUrl on a URL that does not parse).    *)
(* An idle timeout never rejects (see CheckQuietPeriod): the pipeline then *)
(* stays at this await.                                                    *)
TabLoaded(j, ok) ==
    /\ job[j].pipe = "load"
    /\ job' = [job EXCEPT ![j] =
                 IF ok THEN [@ EXCEPT !.pipe = "extract"]
                 ELSE Settle([@ EXCEPT !.pipe = "rejected"], "rej_pipeline")]
    /\ UNCHANGED <<states, isProcessing, saved>>

(* lines 796-799 and 988-1001: the extraction message got its response, or *)
(* chrome.runtime.lastError (always so when the tab is gone)               *)
Extracted(j, ok) ==
    /\ job[j].pipe = "extract"
    /\ ok => job[j].tabState = "open"
    /\ job' = [job EXCEPT ![j] =
                 IF ok THEN [@ EXCEPT !.pipe = "delay"]
                 ELSE Settle([@ EXCEPT !.pipe = "rejected"], "rej_pipeline")]
    /\ UNCHANGED <<states, isProcessing, saved>>

(* Mutant: the screenshot is captured whatever captureScreenshot says      *)
DelayOver_AlwaysCapture(j) ==
    /\ job[j].pipe = "delay"
    /\ job' = [job EXCEPT ![j].pipe = "capture"]
    /\ UNCHANGED <<states, isProcessing, saved>>

(* lines 799-846: the 2000 ms delay is over; capture when asked for,       *)
(* otherwise the POST to /submit is sent                                   *)
DelayOver(j) ==
    /\ job[j].pipe = "delay"
    /\ job' = [job EXCEPT ![j] =
                 IF @.capture THEN [@ EXCEPT !.pipe = "capture"]
                 ELSE [@ EXCEPT !.pipe = "submit", !.submits = @ + 1]]
    /\ UNCHANGED <<states, isProcessing, saved>>

(* lines 805-846: captureFullPage resolved (POST /submit is sent) or rejected *)
Captured(j, ok) ==
    /\ job[j].pipe = "capture"
    /\ ok => job[j].tabState = "open"
    /\ job' = [job EXCEPT ![j] =
                 IF ok THEN [@ EXCEPT !.pipe = "submit", !.submits = @ + 1]
                 ELSE Settle([@ EXCEPT !.pipe = "rejected"], "rej_pipeline")]
    /\ UNCHANGED <<states, isProcessing, saved>>

(* lines 840-863: the POST to /submit answered 2xx (pipeline returns       *)
(* contentData), or answered non-2xx or failed (pipeline throws)           *)
Submitted(j, ok) ==
    /\ job[j].pipe = "submit"
    /\ job' = [job EXCEPT ![j] =
                 IF ok THEN Settle([@ EXCEPT !.pipe = "resolved"], "fulfilled")
                 ELSE Settle([@ EXCEPT !.pipe = "rejected"], "rej_pipeline")]
    /\ UNCHANGED <<states, isProcessing, saved>>

(* The tab disappears without the executor (closed by the user, crashed)   *)
TabGone(j) ==
    /\ job[j].tabState = "open"
    /\ job[j].main # "done"
    /\ job' = [job EXCEPT ![j].tabState = "gone"]
    /\ UNCHANGED <<states, isProcessing, saved>>

(* Mutant: an error of the report replaces the error of the job            *)
Rethrown_ReportError(orig, reportThrew) ==
    IF reportThrew THEN "rej_report" ELSE orig

(* lines 876-893: the report is in a try of its own, whose catch only      *)
(* logs; `throw error` rethrows the error the outer catch received         *)
Rethrown(orig, reportThrew) == orig

(* lines 877-896: the POST to /report_error settled (answered, or threw    *)
(* and was caught), the error is rethrown, finally begins                  *)
ReportSettled(j, ok) ==
    /\ job[j].main = "report"
    /\ job' = [job EXCEPT ![j] =
                 Finally([@ EXCEPT !.reported = IF ok THEN "sent" ELSE "failed",
                                   !.outcome = Rethrown(@, ~ok)])]
    /\ UNCHANGED <<states, isProcessing, saved>>

(* lines 898-910: chrome.tabs.remove settled (it rejects when the tab is   *)
(* already gone, which is caught); setState('idle') is called              *)
TabRemoveSettled(j) ==
    /\ job[j].main = "remove_tab"
    /\ job' = [job EXCEPT ![j].main = "reset_state",
                          ![j].tabState = IF @ = "open" THEN "removed" ELSE @]
    /\ UNCHANGED <<states, isProcessing, saved>>

(* lines 910-913: setState('idle') stored state_idle = undefined;          *)
(* isProcessing = false, saveState() is called                             *)
ResetState(j) ==
    /\ job[j].main = "reset_state"
    /\ states' = [states EXCEPT !["idle"] = 0]
    /\ isProcessing' = FALSE
    /\ job' = [job EXCEPT ![j].main = "save_end", ![j].resetCalls = @ + 1]
    /\ UNCHANGED saved

(* lines 913-916: saveState done, processUrl returns or rethrows           *)
EndProcessUrl(j) ==
    /\ job[j].main = "save_end"
    /\ saved' = FALSE
    /\ job' = [job EXCEPT ![j].main = "done"]
    /\ UNCHANGED <<states, isProcessing>>

(* JobTickMs of wall-clock time pass                                       *)
JobTick ==
    /\ \E j \in JobSlots : job[j].timer = "armed" /\ job[j].timerAge < PROCESSING_TIMEOUT
    /\ job' = [j \in JobSlots |->
                 IF job[j].timer = "armed"
                 THEN [job[j] EXCEPT !.timerAge = Min(@ + JobTickMs, PROCESSING_TIMEOUT)]
                 ELSE job[j]]
    /\ UNCHANGED <<states, isProcessing, saved>>

InitJob ==
    /\ states = [k \in {"processing", "idle"} |-> 0]
    /\ isProcessing = FALSE
    /\ saved = FALSE
    /\ job = [j \in JobSlots |-> NewJob]

----
(***************************************************************************)
(* NetworkRequestTracker (src/networkRequestTracker.js)                    *)
(*                                                                         *)
(* The executor tracks one tab at a time: JobTab is the tab processUrl     *)
(* created, OtherTab any tab that never got a target; webRequest events    *)
(* also arrive with tabId -1.  A URL is kept as its origin ("bad": the     *)
(* URL constructor throws).  Clocks of the wait are relative:              *)
(* elapsed = Date.now() - startTime, quiet = Date.now() - quietStartTime   *)
(* (-1: quietStartTime is null).                                           *)
(***************************************************************************)
JobTab == 1
OtherTab == 2
Tabs == {JobTab, OtherTab}
EventTabs == {-1} \cup Tabs
ReqIds == 1..MaxReqs
Origins == {"a", "b"}
JobOrigin == "a"
EventTypes == {"start", "complete", "error"}

NoRequests == [has |-> FALSE, ids |-> {}]

NoWait ==
    [st |-> "none", interval |-> FALSE, elapsed |-> 0,
     quiet |-> -1, ended |-> "no", origin |-> "none", late |-> FALSE]

(* requests ? requests.size : 0, lines 102-103                             *)
Count(tabId) ==
    IF activeRequests[tabId].has THEN Cardinality(activeRequests[tabId].ids) ELSE 0

(* Mutant: every request of a targeted tab is relevant                     *)
IsRelevantRequest_AnyOrigin(origin, targetOrigin) == targetOrigin # "none"

(* isRelevantRequest, lines 16-25                                          *)
IsRelevantRequest(origin, targetOrigin) ==
    /\ targetOrigin # "none"
    /\ origin # "bad"
    /\ origin = targetOrigin

(* setTargetUrl, lines 11-14, called by processUrl for the tab it created  *)
(* (a tab id is never handed out twice)                                    *)
SetTargetUrl(origin) ==
    /\ wait.st = "none"
    /\ targetUrls[JobTab] = "none"
    /\ targetUrls' = [targetUrls EXCEPT ![JobTab] = origin]
    /\ UNCHANGED <<activeRequests, wait, started, obsRun>>

(* handleRequest, lines 44-75, for one webRequest event                    *)
HandleRequest(type, tabId, requestId, origin) ==
    /\ IF tabId < 0
       THEN UNCHANGED activeRequests
       ELSE IF ~IsRelevantRequest(origin, targetUrls[tabId])
            THEN UNCHANGED activeRequests
            ELSE activeRequests' = [activeRequests EXCEPT ![tabId] =
                    [has |-> TRUE,
                     ids |-> IF type = "start" THEN @.ids \cup {requestId}
                             ELSE @.ids \ {requestId}]]
    /\ started' = [t \in Tabs |->
                     IF t = tabId /\ targetUrls[t] # "none" /\ origin = targetUrls[t]
                     THEN IF type = "start" THEN started[t] \cup {requestId}
                          ELSE started[t] \ {requestId}
                     ELSE started[t]]
    /\ wait' = [wait EXCEPT !.late =
                   @ \/ (wait.ended # "no" /\ tabId = JobTab /\ type = "start"
                         /\ origin = wait.origin)]
    /\ UNCHANGED <<targetUrls, obsRun>>

(* waitForNetworkIdle lines 77-99 and 166, as called by waitForTabLoad     *)
(* (part_002 lines 969-975) after setTargetUrl: the interval is armed      *)
WaitForNetworkIdle ==
    /\ wait.st = "none"
    /\ targetUrls[JobTab] # "none"
    /\ wait' = [wait EXCEPT !.st = "pending", !.interval = TRUE,
                            !.origin = targetUrls[JobTab]]
    /\ obsRun' = -1
    /\ UNCHANGED <<targetUrls, activeRequests, started>>

(* line 117: the progress log is due; evaluating its argument at line 122  *)
(* reads the undeclared identifier targetUrl and throws a ReferenceError   *)
LogsProgress(elapsed) == elapsed % LogPeriod < CheckInterval

(* lines 126-146: the new quietStartTime                                   *)
NextQuiet(quiet, count) ==
    IF count <= MaxActiveRequests
    THEN IF quiet = -1 THEN 0 ELSE quiet
    ELSE -1

(* lines 126-134: the resolve branch is taken                              *)
QuietReached(quiet, count) ==
    count <= MaxActiveRequests /\ quiet # -1 /\ quiet >= QuietPeriod

(* line 148                                                                *)
TimedOut(elapsed) == elapsed >= NetworkTimeout

(* Mutant: cleanup forgets to drop the target origin                       *)
CleanupTarget_Keep(tu, tabId) == tu

(* cleanup, line 172                                                       *)
CleanupTarget(tu, tabId) == [tu EXCEPT ![tabId] = "none"]

(* cleanup, line 171                                                       *)
CleanupRequests(ar, tabId) == [ar EXCEPT ![tabId] = NoRequests]

(* What the checks have observed: the unbroken run of quiet observations   *)
ObservedRun(run, count) ==
    IF count > MaxActiveRequests THEN -1
    ELSE IF run = -1 THEN 0 ELSE run

(* checkQuietPeriod, lines 101-164, run by the interval NetTickMs after    *)
(* the previous run (or after the call).  When the progress log is due the *)
(* callback throws at line 122 before any of the logic below it.  In the   *)
(* timeout branch clearInterval and cleanup run, then the argument of      *)
(* logger.error throws at line 158, so reject (line 162) is not reached.   *)
CheckQuietPeriod ==
    LET count == Count(JobTab)
        elapsed == wait.elapsed + NetTickMs
        quiet == IF wait.quiet = -1 THEN -1 ELSE Min(wait.quiet + NetTickMs, QuietPeriod)
        run == IF obsRun = -1 THEN -1 ELSE Min(obsRun + NetTickMs, QuietPeriod)
        idle == QuietReached(quiet, count)
        late == TimedOut(elapsed)
    IN  /\ wait.interval
        /\ obsRun' = ObservedRun(run, count)
        /\ IF LogsProgress(elapsed)
           THEN /\ wait' = [wait EXCEPT !.elapsed = elapsed, !.quiet = quiet]
                /\ UNCHANGED <<targetUrls, activeRequests, started>>
           ELSE /\ wait' = [wait EXCEPT
                              !.elapsed = elapsed,
                              !.quiet = NextQuiet(quiet, count),
                              !.st = IF idle THEN "resolved" ELSE @,
                              !.interval = ~(idle \/ late),
                              !.ended = IF idle THEN "idle"
                                        ELSE IF late THEN "timeout" ELSE @]
                /\ IF idle \/ late
                   THEN /\ targetUrls' = CleanupTarget(targetUrls, JobTab)
                        /\ activeRequests' = CleanupRequests(activeRequests, JobTab)
                        /\ started' = [started EXCEPT ![JobTab] = {}]
                   ELSE UNCHANGED <<targetUrls, activeRequests, started>>

InitNet ==
    /\ targetUrls = [t \in Tabs |-> "none"]
    /\ activeRequests = [t \in Tabs |-> NoRequests]
    /\ wait = NoWait
    /\ started = [t \in Tabs |-> {}]
    /\ obsRun = -1

----
(***************************************************************************)
(* pollServer and startContinuousPolling (background script, lines         *)
(* 1003-1130).  Caller c is one invocation of startContinuousPolling; the  *)
(* callers of one agent instance share its flag isContinuousPolling.       *)
(***************************************************************************)
FetchResults == {"204", "abort", "neterr", "http_error", "ok_nourl", "ok_url"}

(* One invocation of startContinuousPolling and its current pollServer:    *)
(*   at      "out" (not in the while loop), "poll" (awaiting pollServer),  *)
(*           "delay" (awaiting the 100 ms delay)                           *)
(*   body    the await of the pollServer body: fetch, process, report      *)
(*   resp    how the GET /get_url of this poll ended                       *)
(*   fetches, jobs   get_url requests / processUrl calls of this poll      *)
(*   proc    how processUrl ended; report  how POST /report_error ended    *)
(*   job     the job dispatched by this poll                               *)
(* What a poll recorded is dropped when pollServer has returned (report    *)
(* is kept during the delay that follows).                                 *)
NoLoop ==
    [at |-> "out", body |-> "none", resp |-> "none", fetches |-> 0, jobs |-> 0,
     proc |-> "none", report |-> "none", job |-> 0]

(* Mutant: an aborted fetch stops the loop like any other error            *)
FetchOutcome_AbortStops(result) ==
    CASE result \in {"204", "ok_nourl"} -> "continue"
      [] result = "ok_url" -> "dispatch"
      [] OTHER -> "stop"

(* pollServer lines 1021-1040 and 1081-1092: what the body does with the   *)
(* outcome of fetchWithTimeout                                             *)
FetchOutcome(result) ==
    CASE result \in {"204", "ok_nourl"} -> "continue"
      [] result = "ok_url" -> "dispatch"
      [] result = "abort" -> "continue"
      [] OTHER -> "stop"

(* Mutant: an error of processUrl is not caught in the inner try           *)
AfterProcessUrl_Propagate(threw) == IF threw THEN "stop" ELSE "continue"

(* pollServer lines 1042-1077: processUrl returned, or threw and the error *)
(* is reported first; either way the body returns true                     *)
AfterProcessUrl(threw) == IF threw THEN "report" ELSE "continue"

(* startContinuousPolling line 1110: pollServer's return value as a        *)
(* boolean (true: "continue"; false: "stop", and "skip" of line 1013)      *)
ShouldContinue(r) == r = "continue"

(* The part of a lock step that belongs to pollServer's caller: when the   *)
(* step makes pollServer return, startContinuousPolling resumes (lines     *)
(* 1110-1121); when it hands the lock to pollServer, the body starts with  *)
(* the fetch (lines 1016-1021).                                            *)
LoopResume(c) ==
    IF pc'[c] = "idle"
    THEN IF ~ShouldContinue(ret'[c])
         THEN /\ isContinuousPolling' = [isContinuousPolling EXCEPT ![instOf[c]] = FALSE]
              /\ loop' = [loop EXCEPT ![c] = NoLoop]
         ELSE /\ loop' = [loop EXCEPT ![c] =
                   IF isContinuousPolling[instOf[c]]
                   THEN [NoLoop EXCEPT !.at = "delay", !.report = loop[c].report]
                   ELSE NoLoop]
              /\ UNCHANGED isContinuousPolling
    ELSE IF pc[c] # "cs" /\ pc'[c] = "cs"
         THEN /\ loop' = [loop EXCEPT ![c].body = "fetch", ![c].fetches = @ + 1]
              /\ UNCHANGED isContinuousPolling
         ELSE UNCHANGED <<isContinuousPolling, loop>>

(* A lock step taken inside the pollServer of caller c                     *)
LoopAfter(c) ==
    /\ loop[c].at = "poll"
    /\ LoopResume(c)
    /\ released' = IF pc'[c] = "idle" /\ loop[c].job # 0
                   THEN released \cup {loop[c].job} ELSE released

(* startContinuousPolling lines 1100-1110, called by start_polling,        *)
(* settings-updated, install, startup or the backup alarm: return when the *)
(* flag is set, else set it and call pollServer                            *)
StartContinuousPolling(c) ==
    /\ loop[c].at = "out"
    /\ pc[c] = "idle"
    /\ ~isContinuousPolling[instOf[c]]
    /\ isContinuousPolling' = [isContinuousPolling EXCEPT ![instOf[c]] = TRUE]
    /\ loop' = [loop EXCEPT ![c] = [NoLoop EXCEPT !.at = "poll"]]
    /\ CallPollServer(c)
    /\ UNCHANGED released

(* stopContinuousPolling, lines 1127-1130 (stop_polling message)           *)
StopContinuousPolling(i) ==
    /\ isContinuousPolling[i]
    /\ isContinuousPolling' = [isContinuousPolling EXCEPT ![i] = FALSE]
    /\ UNCHANGED <<loop, released>>

(* lines 1109-1120: the 100 ms delay is over, the while condition is       *)
(* evaluated: next pollServer, or the loop ends                            *)
LoopDelayOver(c) ==
    /\ loop[c].at = "delay"
    /\ IF isContinuousPolling[instOf[c]]
       THEN /\ loop' = [loop EXCEPT ![c] = [NoLoop EXCEPT !.at = "poll"]]
            /\ CallPollServer(c)
       ELSE /\ loop' = [loop EXCEPT ![c] = NoLoop]
            /\ UNCHANGED lockVars
    /\ UNCHANGED <<isContinuousPolling, released>>

(* pollServer lines 1021-1043 and 1081-1095: fetchWithTimeout settled.     *)
(* The body returns (finally: releaseLock) or calls processUrl for job j   *)
(* (j = 0: processUrl is not followed into).                               *)
FetchSettles(c, result, j) ==
    /\ pc[c] = "cs"
    /\ loop[c].body = "fetch"
    /\ IF FetchOutcome(result) = "dispatch"
       THEN /\ loop' = [loop EXCEPT ![c].body = "process", ![c].resp = result,
                                    ![c].jobs = @ + 1, ![c].job = j]
            /\ UNCHANGED lockVars
       ELSE /\ loop' = [loop EXCEPT ![c].body = "release", ![c].resp = result]
            /\ PollBodyEnds(c, FetchOutcome(result))
    /\ UNCHANGED <<isContinuousPolling, released>>

(* pollServer lines 1043-1064: processUrl returned (return true, finally:  *)
(* releaseLock) or threw (the error is logged and POSTed to /report_error) *)
ProcessUrlEnds(c, threw) ==
    /\ pc[c] = "cs"
    /\ loop[c].body = "process"
    /\ IF AfterProcessUrl(threw) = "report"
       THEN /\ loop' = [loop EXCEPT ![c].body = "report", ![c].proc = "threw"]
            /\ UNCHANGED lockVars
       ELSE /\ loop' = [loop EXCEPT ![c].body = "release",
                          ![c].proc = IF threw THEN "threw" ELSE "returned"]
            /\ PollBodyEnds(c, AfterProcessUrl(threw))
    /\ UNCHANGED <<isContinuousPolling, released>>

(* pollServer lines 1056-1095: the POST to /report_error settled (failure  *)
(* is caught), return true, finally: releaseLock                           *)
PollReportSettles(c, ok) ==
    /\ pc[c] = "cs"
    /\ loop[c].body = "report"
    /\ loop' = [loop EXCEPT ![c].body = "release",
                            ![c].report = IF ok THEN "sent" ELSE "failed"]
    /\ PollBodyEnds(c, "continue")
    /\ UNCHANGED <<isContinuousPolling, released>>

(* pollServer line 1043: the processUrl call of job j is over; its outcome *)
(* decides between line 1044 (catch) and line 1077                         *)
ProcessUrlReturns(c, j) ==
    /\ loop[c].job = j
    /\ job[j].main = "done"
    /\ ProcessUrlEnds(c, job[j].outcome # "fulfilled")

InitLoop ==
    /\ isContinuousPolling = [i \in Instances |-> FALSE]
    /\ loop = [c \in Callers |-> NoLoop]
    /\ released = {}

----
(***************************************************************************)
(* The backup alarm (background script, lines 1216-1251) and the errors of *)
(* the durable store that acquireLock / releaseLock rethrow.               *)
(***************************************************************************)
StaleThreshold == 600000

(* One invocation of the alarm listener:                                   *)
(*   pc    "idle", or the await it is suspended at                         *)
(*   seen  what getState('processing') gave it: "absent", "fresh", "stale" *)
(*   val   the isProcessing value its pending saveState() is writing       *)
NoAlarm == [pc |-> "idle", seen |-> "none", val |-> FALSE]

(* processUrl lines 766-770: the processing record carries startTime = now *)
StartTimeStored == procAge' = 0

(* Mutant: a processing record is cleared whatever its age                 *)
IsStale_AnyAge(present, age) == present

(* lines 1228-1230: the record exists and age > 600000                     *)
IsStale(present, age) == present /\ age > StaleThreshold

(* stateLock.js lines 105-113 and 153-159: a chrome.storage call of        *)
(* acquireLock or releaseLock rejected; acquireLock deletes the memory     *)
(* lock; both rethrow                                                      *)
StorageFails(c) ==
    /\ pc[c] \in {"acq_get", "acq_set", "rel_get", "rel_remove"}
    /\ memoryLocks' = IF pc[c] \in {"acq_get", "acq_set"}
                      THEN [memoryLocks EXCEPT ![instOf[c]] = NoLock]
                      ELSE memoryLocks
    /\ pc' = [pc EXCEPT ![c] = "idle"]
    /\ ret' = [ret EXCEPT ![c] = "threw"]
    /\ lockId' = [lockId EXCEPT ![c] = 0]
    /\ attempt' = [attempt EXCEPT ![c] = 0]
    /\ alone' = Interfere(c)
    /\ UNCHANGED <<instOf, store, nextToken, op, held, waited, fnRes,
                   relCount, wrote, staleAtCall, snapMem>>

(* The error leaves tryAcquireLock / the finally of pollServer (lines 1007 *)
(* and 1095 are outside any try), then startContinuousPolling at line      *)
(* 1110, which has no handler: the invocation ends, the flag is untouched  *)
PollServerThrows(c) ==
    /\ loop[c].at = "poll"
    /\ StorageFails(c)
    /\ loop' = [loop EXCEPT ![c] = NoLoop]
    /\ UNCHANGED <<isContinuousPolling, released>>

(* line 1243 (and 1190, 1260): startContinuousPolling is called, not       *)
(* awaited; it returns at once when the flag is set                        *)
AlarmRestart(c) ==
    IF isContinuousPolling[instOf[c]]
    THEN UNCHANGED <<lockVars, loopVars>>
    ELSE StartContinuousPolling(c)

(* lines 1217-1219: the alarm fires, the settings are requested            *)
AlarmFires ==
    /\ alarm.pc = "idle"
    /\ alarm' = [NoAlarm EXCEPT !.pc = "settings"]
    /\ UNCHANGED <<lockVars, jobVars, loopVars, procAge>>

(* lines 1219-1224 and 1244-1249: with a controlUrl and the flag not set,  *)
(* saveState() is called; otherwise the alarm is skipped                   *)
AlarmSettings(c, hasUrl) ==
    /\ alarm.pc = "settings"
    /\ alarm' = IF hasUrl /\ ~isContinuousPolling[instOf[c]]
                THEN [alarm EXCEPT !.pc = "save", !.val = isProcessing]
                ELSE [alarm EXCEPT !.pc = "idle", !.seen = "skipped"]
    /\ UNCHANGED <<lockVars, jobVars, loopVars, procAge>>

(* lines 1224-1227: saveState done, getState('processing') is called       *)
AlarmSaved(c) ==
    /\ alarm.pc = "save"
    /\ saved' = alarm.val
    /\ alarm' = [alarm EXCEPT !.pc = "get_state"]
    /\ UNCHANGED <<lockVars, states, isProcessing, job, loopVars, procAge>>

(* lines 1227-1243: the record is read; a stale one leads to clearState,   *)
(* otherwise startContinuousPolling is called                              *)
AlarmGotState(c) ==
    /\ alarm.pc = "get_state"
    /\ IF IsStale(states["processing"] # 0, procAge)
       THEN /\ alarm' = [alarm EXCEPT !.pc = "clear", !.seen = "stale"]
            /\ UNCHANGED <<lockVars, loopVars>>
       ELSE /\ alarm' = [alarm EXCEPT !.pc = "idle",
                           !.seen = IF states["processing"] # 0 THEN "fresh" ELSE "absent"]
            /\ AlarmRestart(c)
    /\ UNCHANGED <<jobVars, procAge>>

(* lines 1236-1238: clearState removed the record; isProcessing = false,   *)
(* saveState() is called                                                   *)
AlarmCleared(c) ==
    /\ alarm.pc = "clear"
    /\ states' = [states EXCEPT !["processing"] = 0]
    /\ procAge' = 0
    /\ isProcessing' = FALSE
    /\ alarm' = [alarm EXCEPT !.pc = "save_cleared", !.val = FALSE]
    /\ UNCHANGED <<lockVars, saved, job, loopVars>>

(* lines 1238-1243: saveState done, startContinuousPolling is called       *)
AlarmClearSaved(c) ==
    /\ alarm.pc = "save_cleared"
    /\ saved' = alarm.val
    /\ alarm' = [alarm EXCEPT !.pc = "idle"]
    /\ AlarmRestart(c)
    /\ UNCHANGED <<states, isProcessing, job, procAge>>

(* JobTickMs of wall-clock time pass for the stored processing record      *)
AgeTick ==
    /\ states["processing"] # 0
    /\ procAge <= StaleThreshold
    /\ procAge' = procAge + JobTickMs
    /\ UNCHANGED <<lockVars, jobVars, loopVars, alarm, tabLoad, shot, canvas, tryLock, upd, stopCtl>>

InitAlarm ==
    /\ alarm = NoAlarm
    /\ procAge = 0

----
(***************************************************************************)
(* waitForTabLoad (background script, lines 922-986)                       *)
(***************************************************************************)
(*   listener    the chrome.tabs.onUpdated listener: "none", "on", "removed" *)
(*   timer       the page-load setTimeout (30 s)                           *)
(*   loadResult  argument of the proceedWithNetworkWait call               *)
(*   waits       calls of networkTracker.waitForNetworkIdle                *)
NoTabLoad == [listener |-> "none", timer |-> "unset", loadResult |-> "none", waits |-> 0]

(* Mutant: the listener stays registered after it has proceeded            *)
AfterProceed_Keep(listener) == listener

(* lines 931-934 and 946-948: listenerRemoved = true, removeListener       *)
AfterProceed(listener) == "removed"

(* lines 957-975: proceedWithNetworkWait: clearTimeout, then the call of   *)
(* waitForNetworkIdle                                                      *)
ProceedWithNetworkWait(t, loadResult) ==
    [t EXCEPT !.timer = IF @ = "armed" THEN "cleared" ELSE @,
              !.loadResult = loadResult,
              !.waits = @ + 1]

(* lines 792-793 and 922-955: the pipeline calls waitForTabLoad for the    *)
(* tab it created: the listener is added, the page-load timer is armed     *)
WaitForTabLoad ==
    tabLoad' = [NoTabLoad EXCEPT !.listener = "on", !.timer = "armed"]

(* lines 930-939: the browser reports status 'complete' for the tab (it    *)
(* may do so more than once); the listener runs while it is registered     *)
TabComplete(j) ==
    /\ job[j].tabState = "open"
    /\ tabLoad.listener = "on"
    /\ tabLoad' = ProceedWithNetworkWait(
                     [tabLoad EXCEPT !.listener = AfterProceed(@)], "complete")
    /\ UNCHANGED jobVars

(* lines 945-955: the page-load timer fires                                *)
PageLoadTimeout ==
    /\ tabLoad.timer = "armed"
    /\ tabLoad' = IF tabLoad.listener = "on"
                  THEN ProceedWithNetworkWait(
                          [tabLoad EXCEPT !.timer = "fired",
                                          !.listener = AfterProceed(@)], "timeout")
                  ELSE [tabLoad EXCEPT !.timer = "fired"]
    /\ UNCHANGED jobVars

InitTabLoad == tabLoad = NoTabLoad

----
(***************************************************************************)
(* Full-page capture: the takeScreenshot handler of the content script     *)
(* (src/unnamed/part_000) and ScreenshotCapture.captureFullPage            *)
(* (src/backgroundScreenshotHandler.js).  Heights are in units of the      *)
(* model; a tile is named by the number of the capture request it answers. *)
(***************************************************************************)
PageHeights == 0..MaxPageHeight
ViewportHeights == 1..MaxViewport
CaptureResults == {"image", "null", "error"}

(*   pc             "idle", "capturing" (captureVisibleTab pending),       *)
(*                  "scroll_wait" (the 500 ms delay), "responded"          *)
(*                  (sendResponse called), "settled" (captureFullPage over) *)
(*   scrollHeight, clientHeight, capturedHeight, capturedImages   as named *)
(*   isLastCapture  of the running captureAndScroll call                   *)
(*   captures, scrolls   capture requests sent / window.scrollTo calls     *)
(*   lastFlags      isLastCapture of every capture request so far          *)
(*   failedAt       number of the capture request that failed (0: none)    *)
(*   responses      sendResponse calls                                     *)
(*   images         the images of the response                             *)
(*   result         how captureFullPage settled; composed: the tiles drawn *)
(*   scrollY        the vertical scroll offset of the window               *)
(*   offsets        the scroll offset at which each collected tile was     *)
(*                  captured                                               *)
NoShot ==
    [pc |-> "idle", scrollHeight |-> 0, clientHeight |-> 1, capturedHeight |-> 0,
     capturedImages |-> <<>>, isLastCapture |-> FALSE, captures |-> 0, scrolls |-> 0,
     lastFlags |-> <<>>, failedAt |-> 0, responses |-> 0, images |-> <<>>,
     result |-> "none", composed |-> <<>>, scrollY |-> 0, offsets |-> <<>>]

(* window.scrollTo(0, y), part_000 line 40: the window scrolls to y, but   *)
(* not beyond the last position of the document, scrollHeight minus        *)
(* clientHeight                                                            *)
ScrollTo(y, scrollHeight, clientHeight) ==
    Min(y, IF scrollHeight > clientHeight THEN scrollHeight - clientHeight ELSE 0)

(* Mutant: the last tile is the one that goes beyond the page height       *)
IsLastCapture_Beyond(capturedHeight, scrollAmount, scrollHeight) ==
    capturedHeight + scrollAmount > scrollHeight

(* part_000 line 13                                                        *)
IsLastCapture(capturedHeight, scrollAmount, scrollHeight) ==
    capturedHeight + scrollAmount >= scrollHeight

(* Mutant: a failed capture step answers with no tiles                     *)
ResponseOnError_Empty(capturedImages) == <<>>

(* part_000 line 48: the catch block sends what was collected              *)
ResponseOnError(capturedImages) == capturedImages

(* part_000 lines 9-27: captureAndScroll computes isLastCapture and sends  *)
(* the captureVisibleTab request                                           *)
CaptureAndScroll(r) ==
    LET last == IsLastCapture(r.capturedHeight, r.clientHeight, r.scrollHeight)
    IN  [r EXCEPT !.pc = "capturing", !.isLastCapture = last,
                  !.captures = @ + 1, !.lastFlags = Append(@, last)]

(* src/screenshotCapture.js lines 10-29: the handler that tests after the  *)
(* capture; number of tiles it collects when every capture answers         *)
RECURSIVE CaptureAndScrollAfter(_, _, _)
CaptureAndScrollAfter(capturedHeight, scrollAmount, scrollHeight) ==
    IF capturedHeight + scrollAmount < scrollHeight
    THEN 1 + CaptureAndScrollAfter(capturedHeight + scrollAmount, scrollAmount, scrollHeight)
    ELSE 1

(* part_000 lines 2-9 and 53: the takeScreenshot message arrives; the      *)
(* document has scrollHeight h and clientHeight v                          *)
TakeScreenshot(h, v) ==
    /\ shot.pc = "idle"
    /\ shot' = CaptureAndScroll([NoShot EXCEPT !.scrollHeight = h, !.clientHeight = v])

(* part_000 lines 16-49: the captureVisibleTab request was answered with   *)
(* an image, with nothing, or chrome.runtime.lastError was set             *)
CaptureAnswers(res) ==
    /\ shot.pc = "capturing"
    /\ shot' =
         IF res = "image"
         THEN LET r == [shot EXCEPT !.capturedImages = Append(@, shot.captures),
                                    !.offsets = Append(@, shot.scrollY),
                                    !.capturedHeight = @ + shot.clientHeight]
              IN  IF shot.isLastCapture
                  THEN [r EXCEPT !.pc = "responded", !.responses = @ + 1,
                                 !.images = r.capturedImages]
                  ELSE [r EXCEPT !.pc = "scroll_wait", !.scrolls = @ + 1,
                                 !.scrollY = ScrollTo(r.capturedHeight, r.scrollHeight,
                                                      r.clientHeight)]
         ELSE [shot EXCEPT !.pc = "responded", !.responses = @ + 1,
                           !.failedAt = shot.captures,
                           !.images = ResponseOnError(shot.capturedImages)]

(* part_000 lines 41-42: the 500 ms delay is over, captureAndScroll again  *)
ScrollDelayOver ==
    /\ shot.pc = "scroll_wait"
    /\ shot' = CaptureAndScroll(shot)

(* Mutant: an empty list of images is composed like any other             *)
ComposeTiles_AcceptEmpty(ok) ==
    /\ shot.pc = "responded"
    /\ shot' = IF ok
               THEN [shot EXCEPT !.pc = "settled", !.result = "image",
                                 !.composed = shot.images]
               ELSE [shot EXCEPT !.pc = "settled", !.result = "compose_error"]

(* backgroundScreenshotHandler.js lines 44-83: the response arrives at     *)
(* captureFullPage; no image -> 'No images captured'; otherwise the tiles  *)
(* are drawn one below the other (ok), unless fetch / createImageBitmap /  *)
(* convertToBlob throws                                                    *)
ComposeTiles(ok) ==
    /\ shot.pc = "responded"
    /\ shot' = IF Len(shot.images) = 0
               THEN [shot EXCEPT !.pc = "settled", !.result = "no_images"]
               ELSE IF ok
                    THEN [shot EXCEPT !.pc = "settled", !.result = "image",
                                      !.composed = shot.images]
                    ELSE [shot EXCEPT !.pc = "settled", !.result = "compose_error"]

InitShot == shot = NoShot

----
(***************************************************************************)
(* Composition of the tiles in captureFullPage                             *)
(* (src/backgroundScreenshotHandler.js lines 50-78).  A bitmap is the      *)
(* decoded image of one tile, with its width and height.                   *)
(***************************************************************************)
Bitmaps == [width : 1..MaxTileSide, height : 1..MaxTileSide]

RECURSIVE SeqsUpTo(_, _)
SeqsUpTo(S, n) ==
    IF n = 0 THEN {<<>>}
    ELSE LET shorter == SeqsUpTo(S, n - 1)
         IN  shorter \cup {Append(q, x) : q \in {t \in shorter : Len(t) = n - 1}, x \in S}

(* The non-empty lists of images a response can carry                      *)
TileLists == SeqsUpTo(Bitmaps, MaxTiles) \ {<<>>}

(*   pc       "idle", "draw" (in the for loop), "encode" (convertToBlob),  *)
(*            "done", "failed"                                             *)
(*   images   the bitmaps the data URLs of the response decode to          *)
(*   width, height   of the canvas;  yOffset, next: the loop's variables   *)
(*   drawn    the drawImage calls: which image, at which y, of which size  *)
NoCanvas ==
    [pc |-> "idle", images |-> <<>>, width |-> 1, height |-> 1, yOffset |-> 0,
     next |-> 1, drawn |-> <<>>]

(* Mutant: every tile advances the offset by its own height                *)
NextOffset_OwnHeight(yOffset, firstBitmap, bitmap) == yOffset + bitmap.height

(* line 69: yOffset += firstBitmap.height                                  *)
NextOffset(yOffset, firstBitmap, bitmap) == yOffset + firstBitmap.height

(* lines 50-60: the canvas is created and sized from the first image       *)
SizeCanvas(images) ==
    /\ canvas.pc = "idle"
    /\ canvas' = [NoCanvas EXCEPT !.pc = "draw", !.images = images,
                                  !.width = images[1].width,
                                  !.height = images[1].height * Len(images)]

(* lines 64-71: one round of the for loop                                  *)
DrawImage ==
    /\ canvas.pc = "draw"
    /\ LET i == canvas.next
           bitmap == canvas.images[i]
       IN  canvas' = [canvas EXCEPT
                        !.drawn = Append(@, [image |-> i, x |-> 0, y |-> canvas.yOffset,
                                             width |-> bitmap.width,
                                             height |-> bitmap.height]),
                        !.yOffset = NextOffset(@, canvas.images[1], bitmap),
                        !.next = i + 1,
                        !.pc = IF i = Len(canvas.images) THEN "encode" ELSE "draw"]

(* lines 75-78: convertToBlob and blobToBase64 give the image, or throw    *)
ConvertToBlob(ok) ==
    /\ canvas.pc = "encode"
    /\ canvas' = [canvas EXCEPT !.pc = IF ok THEN "done" ELSE "failed"]

InitCanvas == canvas = NoCanvas

----
(***************************************************************************)
(* tryAcquireLock(resource, maxRetries, retryDelay), src/stateLock.js      *)
(* lines 164-188, for any arguments; acquireLock is the callee, which      *)
(* returns a token or null, or throws.  The delay is in units of the       *)
(* model's clock.                                                          *)
(***************************************************************************)
(*   pc       "idle", "acquire" (awaiting acquireLock), "delay" (awaiting  *)
(*            the setTimeout), "returned", "threw"                         *)
(*   i        the loop index;  calls: acquireLock calls made               *)
(*   waited   time spent in the running delay;  waits: length of each      *)
(*            delay that ended;  ret: "none", "token", "null"              *)
(*   tokenAt  number of the acquireLock call whose token was returned      *)
NoTryLock ==
    [pc |-> "idle", maxRetries |-> 0, retryDelay |-> 0, i |-> 0, calls |-> 0,
     waited |-> 0, waits |-> <<>>, ret |-> "none", tokenAt |-> 0]

(* Mutant: the delay is also taken after the last attempt                  *)
HasNextAttempt_Always(i, maxRetries) == i < maxRetries

(* line 171: if (i < maxRetries - 1)                                       *)
HasNextAttempt(i, maxRetries) == i < maxRetries - 1

(* lines 164-166: the call; the loop is entered when 0 < maxRetries        *)
TryAcquireLock(maxRetries, retryDelay) ==
    /\ tryLock.pc = "idle"
    /\ tryLock' =
         IF 0 < maxRetries
         THEN [NoTryLock EXCEPT !.pc = "acquire", !.maxRetries = maxRetries,
                                !.retryDelay = retryDelay, !.calls = 1]
         ELSE [NoTryLock EXCEPT !.pc = "returned", !.maxRetries = maxRetries,
                                !.retryDelay = retryDelay, !.ret = "null"]

(* lines 166-188: acquireLock returned a token or null, or threw           *)
AcquireLockSettles(res) ==
    /\ tryLock.pc = "acquire"
    /\ tryLock' =
         CASE res = "token" ->
                [tryLock EXCEPT !.pc = "returned", !.ret = "token",
                                !.tokenAt = tryLock.calls]
           [] res = "threw" -> [tryLock EXCEPT !.pc = "threw"]
           [] OTHER ->
                IF HasNextAttempt(tryLock.i, tryLock.maxRetries)
                THEN [tryLock EXCEPT !.pc = "delay", !.waited = 0]
                ELSE IF tryLock.i + 1 < tryLock.maxRetries
                     THEN [tryLock EXCEPT !.pc = "acquire", !.i = @ + 1,
                                          !.calls = @ + 1]
                     ELSE [tryLock EXCEPT !.pc = "returned", !.i = @ + 1,
                                          !.ret = "null"]

(* A unit of time passes while the setTimeout of line 177 is pending       *)
RetryDelayTick ==
    /\ tryLock.pc = "delay"
    /\ tryLock.waited < tryLock.retryDelay
    /\ tryLock' = [tryLock EXCEPT !.waited = @ + 1]

(* line 177: the timer fired (not before retryDelay has passed); i++ and   *)
(* the loop test of line 165                                               *)
RetryDelayOver ==
    /\ tryLock.pc = "delay"
    /\ tryLock.waited >= tryLock.retryDelay
    /\ tryLock' =
         LET r == [tryLock EXCEPT !.i = @ + 1, !.waits = Append(@, tryLock.waited)]
         IN  IF r.i < r.maxRetries
             THEN [r EXCEPT !.pc = "acquire", !.calls = @ + 1]
             ELSE [r EXCEPT !.pc = "returned", !.ret = "null"]

InitTryLock == tryLock = NoTryLock

----
(***************************************************************************)
(* updateState (src/stateLock.js lines 224-234): withLock around getState, *)
(* updateFn and setState.  The state of the resource is a number, and an   *)
(* updateFn that returns a new state returns the one it was given plus 1,  *)
(* so the stored state counts the updates that took effect.                *)
(***************************************************************************)
(*   state    chrome.storage.local[state_<resource>]                       *)
(*   cur      per caller: currentState of its running call (-1: not read)  *)
(*   at       per caller: "out", "get" (awaiting getState), "fn" (awaiting  *)
(*            updateFn), "set" (awaiting setState), "end" (fn is over)     *)
(*   writes   setState calls that were applied                             *)
NoUpdate ==
    [state |-> 0, cur |-> [c \in Callers |-> -1], at |-> [c \in Callers |-> "out"],
     writes |-> 0]

(* lines 225-226: fn of withLock starts, getState is called                *)
UpdateBegins(c) ==
    /\ pc[c] = "fn" /\ op[c] = "withLock"
    /\ upd.at[c] = "out"
    /\ upd' = [upd EXCEPT !.at[c] = "get"]

(* lines 226-227 (209-212): the storage get resolved, updateFn is called   *)
UpdateGotState(c) ==
    /\ upd.at[c] = "get"
    /\ upd' = [upd EXCEPT !.cur[c] = upd.state, !.at[c] = "fn"]

(* lines 227-230: updateFn returned a new state (setState is called),      *)
(* returned undefined, or threw                                            *)
UpdateFnSettles(c, res) ==
    /\ upd.at[c] = "fn"
    /\ upd' = [upd EXCEPT !.at[c] = IF res = "state" THEN "set" ELSE "end"]

(* lines 229 (214-217): the storage set is applied                         *)
UpdateSetState(c) ==
    /\ upd.at[c] = "set"
    /\ upd' = [upd EXCEPT !.state = upd.cur[c] + 1, !.writes = @ + 1, !.at[c] = "end"]

(* lines 231-232 and withLock 200-204: fn is over, finally releases        *)
UpdateEnds(c, outcome) ==
    /\ upd.at[c] = "end"
    /\ FnSettles(c, outcome)
    /\ upd' = [upd EXCEPT !.at[c] = "out", !.cur[c] = -1]

InitUpdate == upd = NoUpdate

----
(***************************************************************************)
(* stop_polling (background script, lines 1265-1277): stopContinuousPolling *)
(* and chrome.alarms.clear.  The alarm is scheduled by install, startup    *)
(* and startPollingWithSettings (lines 1183, 1317, 1334).                  *)
(***************************************************************************)
(*   alarmSet   the alarm 'pollServer' is scheduled                        *)
(*   stopped    a stop_polling request was handled and no start request,   *)
(*              install or startup event came after it                     *)
AlarmScheduled == [alarmSet |-> TRUE, stopped |-> FALSE]

(* lines 1265-1268: the flag is reset, whatever it was, and the alarm is   *)
(* cleared; a listener invocation that is already running goes on          *)
StopPolling(i) ==
    /\ ~stopCtl.stopped
    /\ isContinuousPolling' = [isContinuousPolling EXCEPT ![i] = FALSE]
    /\ stopCtl' = [alarmSet |-> FALSE, stopped |-> TRUE]
    /\ UNCHANGED <<loop, released>>

InitStop == stopCtl = AlarmScheduled

Init == InitLock /\ InitJob /\ InitNet /\ InitLoop /\ InitAlarm /\ InitTabLoad /\ InitShot
        /\ InitCanvas /\ InitTryLock /\ InitUpdate /\ InitStop

(* Lock operations called directly: acquireLock, releaseLock, withLock     *)
Next ==
    \/ \E c \in Callers : CallAcquire(c) /\ UNCHANGED <<jobVars, netVars, loopVars, alarmVars, tabLoad, shot, canvas, tryLock, upd, stopCtl>>
    \/ \E c \in Callers : CallWithLock(c) /\ UNCHANGED <<jobVars, netVars, loopVars, alarmVars, tabLoad, shot, canvas, tryLock, upd, stopCtl>>
    \/ \E c \in Callers : AcquireCheckStorage(c) /\ UNCHANGED <<jobVars, netVars, loopVars, alarmVars, tabLoad, shot, canvas, tryLock, upd, stopCtl>>
    \/ \E c \in Callers : AcquireSetStorage(c) /\ UNCHANGED <<jobVars, netVars, loopVars, alarmVars, tabLoad, shot, canvas, tryLock, upd, stopCtl>>
    \/ \E c \in Callers : CallRelease(c) /\ UNCHANGED <<jobVars, netVars, loopVars, alarmVars, tabLoad, shot, canvas, tryLock, upd, stopCtl>>
    \/ \E c \in Callers : \E o \in {"fn_ok", "fn_error"} : FnSettles(c, o) /\ UNCHANGED <<jobVars, netVars, loopVars, alarmVars, tabLoad, shot, canvas, tryLock, upd, stopCtl>>
    \/ \E c \in Callers : ReleaseCheckStorage(c) /\ UNCHANGED <<jobVars, netVars, loopVars, alarmVars, tabLoad, shot, canvas, tryLock, upd, stopCtl>>
    \/ \E c \in Callers : ReleaseRemoveStorage(c) /\ UNCHANGED <<jobVars, netVars, loopVars, alarmVars, tabLoad, shot, canvas, tryLock, upd, stopCtl>>
    \/ Tick /\ UNCHANGED <<jobVars, netVars, loopVars, alarmVars, tabLoad, shot, canvas, tryLock, upd, stopCtl>>

Spec == Init /\ [][Next]_vars

(* Two agent instances (or two call chains) each running pollServer       *)
NextPoll ==
    \/ \E c \in Callers : CallPollServer(c) /\ UNCHANGED <<jobVars, netVars, loopVars, alarmVars, tabLoad, shot, canvas, tryLock, upd, stopCtl>>
    \/ \E c \in Callers : RetryAcquire(c) /\ UNCHANGED <<jobVars, netVars, loopVars, alarmVars, tabLoad, shot, canvas, tryLock, upd, stopCtl>>
    \/ \E c \in Callers : AcquireCheckStorage(c) /\ UNCHANGED <<jobVars, netVars, loopVars, alarmVars, tabLoad, shot, canvas, tryLock, upd, stopCtl>>
    \/ \E c \in Callers : AcquireSetStorage(c) /\ UNCHANGED <<jobVars, netVars, loopVars, alarmVars, tabLoad, shot, canvas, tryLock, upd, stopCtl>>
    \/ \E c \in Callers : \E o \in {"continue", "stop"} : PollBodyEnds(c, o) /\ UNCHANGED <<jobVars, netVars, loopVars, alarmVars, tabLoad, shot, canvas, tryLock, upd, stopCtl>>
    \/ \E c \in Callers : ReleaseCheckStorage(c) /\ UNCHANGED <<jobVars, netVars, loopVars, alarmVars, tabLoad, shot, canvas, tryLock, upd, stopCtl>>
    \/ \E c \in Callers : ReleaseRemoveStorage(c) /\ UNCHANGED <<jobVars, netVars, loopVars, alarmVars, tabLoad, shot, canvas, tryLock, upd, stopCtl>>
    \/ Tick /\ UNCHANGED <<jobVars, netVars, loopVars, alarmVars, tabLoad, shot, canvas, tryLock, upd, stopCtl>>

SpecPoll == Init /\ [][NextPoll]_vars

(* One agent instance executing jobs one after the other                   *)
NextJob ==
    \/ \E j \in Jobs : \E cap \in BOOLEAN : StartProcessUrl(j, cap) /\ UNCHANGED <<lockVars, netVars, loopVars, alarmVars, tabLoad, shot, canvas, tryLock, upd, stopCtl>>
    \/ \E j \in Jobs : SetProcessingState(j) /\ StartTimeStored /\ UNCHANGED <<lockVars, netVars, loopVars, alarm, tabLoad, shot, canvas, tryLock, upd, stopCtl>>
    \/ \E j \in Jobs : BeginRace(j) /\ UNCHANGED <<lockVars, netVars, loopVars, alarmVars, tabLoad, shot, canvas, tryLock, upd, stopCtl>>
    \/ \E j \in Jobs : TimerFires(j) /\ UNCHANGED <<lockVars, netVars, loopVars, alarmVars, tabLoad, shot, canvas, tryLock, upd, stopCtl>>
    \/ \E j \in Jobs : \E ok \in BOOLEAN : TabCreated(j, ok) /\ UNCHANGED <<lockVars, netVars, loopVars, alarmVars, tabLoad, shot, canvas, tryLock, upd, stopCtl>>
    \/ \E j \in Jobs : \E ok \in BOOLEAN : TabLoaded(j, ok) /\ UNCHANGED <<lockVars, netVars, loopVars, alarmVars, tabLoad, shot, canvas, tryLock, upd, stopCtl>>
    \/ \E j \in Jobs : \E ok \in BOOLEAN : Extracted(j, ok) /\ UNCHANGED <<lockVars, netVars, loopVars, alarmVars, tabLoad, shot, canvas, tryLock, upd, stopCtl>>
    \/ \E j \in Jobs : DelayOver(j) /\ UNCHANGED <<lockVars, netVars, loopVars, alarmVars, tabLoad, shot, canvas, tryLock, upd, stopCtl>>
    \/ \E j \in Jobs : \E ok \in BOOLEAN : Captured(j, ok) /\ UNCHANGED <<lockVars, netVars, loopVars, alarmVars, tabLoad, shot, canvas, tryLock, upd, stopCtl>>
    \/ \E j \in Jobs : \E ok \in BOOLEAN : Submitted(j, ok) /\ UNCHANGED <<lockVars, netVars, loopVars, alarmVars, tabLoad, shot, canvas, tryLock, upd, stopCtl>>
    \/ \E j \in Jobs : TabGone(j) /\ UNCHANGED <<lockVars, netVars, loopVars, alarmVars, tabLoad, shot, canvas, tryLock, upd, stopCtl>>
    \/ \E j \in Jobs : \E ok \in BOOLEAN : ReportSettled(j, ok) /\ UNCHANGED <<lockVars, netVars, loopVars, alarmVars, tabLoad, shot, canvas, tryLock, upd, stopCtl>>
    \/ \E j \in Jobs : TabRemoveSettled(j) /\ UNCHANGED <<lockVars, netVars, loopVars, alarmVars, tabLoad, shot, canvas, tryLock, upd, stopCtl>>
    \/ \E j \in Jobs : ResetState(j) /\ UNCHANGED <<lockVars, netVars, loopVars, alarmVars, tabLoad, shot, canvas, tryLock, upd, stopCtl>>
    \/ \E j \in Jobs : EndProcessUrl(j) /\ UNCHANGED <<lockVars, netVars, loopVars, alarmVars, tabLoad, shot, canvas, tryLock, upd, stopCtl>>
    \/ JobTick /\ UNCHANGED <<lockVars, netVars, loopVars, alarmVars, tabLoad, shot, canvas, tryLock, upd, stopCtl>>

InitJobOnly == Init /\ instOf = [c \in Callers |-> c]

SpecJob == InitJobOnly /\ [][NextJob]_vars

(* One tracker, the events of the browser, and one network-idle wait       *)
NextNet ==
    \/ SetTargetUrl(JobOrigin) /\ UNCHANGED <<lockVars, jobVars, loopVars, alarmVars, tabLoad, shot, canvas, tryLock, upd, stopCtl>>
    \/ \E ty \in EventTypes : \E t \in EventTabs : \E r \in ReqIds :
          \E o \in Origins \cup {"bad"} :
             HandleRequest(ty, t, r, o) /\ UNCHANGED <<lockVars, jobVars, loopVars, alarmVars, tabLoad, shot, canvas, tryLock, upd, stopCtl>>
    \/ WaitForNetworkIdle /\ UNCHANGED <<lockVars, jobVars, loopVars, alarmVars, tabLoad, shot, canvas, tryLock, upd, stopCtl>>
    \/ CheckQuietPeriod /\ UNCHANGED <<lockVars, jobVars, loopVars, alarmVars, tabLoad, shot, canvas, tryLock, upd, stopCtl>>

SpecNet == InitJobOnly /\ [][NextNet]_vars

(* The invocations of startContinuousPolling of one or two agent           *)
(* instances; processUrl is a call that returns or throws                  *)
NextLoop ==
    \/ \E c \in Callers : StartContinuousPolling(c) /\ UNCHANGED <<jobVars, netVars, alarmVars, tabLoad, shot, canvas, tryLock, upd, stopCtl>>
    \/ \E i \in Instances : StopContinuousPolling(i)
                               /\ UNCHANGED <<lockVars, jobVars, netVars, alarmVars, tabLoad, shot, canvas, tryLock, upd, stopCtl>>
    \/ \E c \in Callers : RetryAcquire(c) /\ LoopAfter(c) /\ UNCHANGED <<jobVars, netVars, alarmVars, tabLoad, shot, canvas, tryLock, upd, stopCtl>>
    \/ \E c \in Callers : AcquireCheckStorage(c) /\ LoopAfter(c)
                            /\ UNCHANGED <<jobVars, netVars, alarmVars, tabLoad, shot, canvas, tryLock, upd, stopCtl>>
    \/ \E c \in Callers : AcquireSetStorage(c) /\ LoopAfter(c)
                            /\ UNCHANGED <<jobVars, netVars, alarmVars, tabLoad, shot, canvas, tryLock, upd, stopCtl>>
    \/ \E c \in Callers : ReleaseCheckStorage(c) /\ LoopAfter(c)
                            /\ UNCHANGED <<jobVars, netVars, alarmVars, tabLoad, shot, canvas, tryLock, upd, stopCtl>>
    \/ \E c \in Callers : ReleaseRemoveStorage(c) /\ LoopAfter(c)
                            /\ UNCHANGED <<jobVars, netVars, alarmVars, tabLoad, shot, canvas, tryLock, upd, stopCtl>>
    \/ \E c \in Callers : \E r \in FetchResults :
          FetchSettles(c, r, 0) /\ UNCHANGED <<jobVars, netVars, alarmVars, tabLoad, shot, canvas, tryLock, upd, stopCtl>>
    \/ \E c \in Callers : \E threw \in BOOLEAN :
          ProcessUrlEnds(c, threw) /\ UNCHANGED <<jobVars, netVars, alarmVars, tabLoad, shot, canvas, tryLock, upd, stopCtl>>
    \/ \E c \in Callers : \E ok \in BOOLEAN :
          PollReportSettles(c, ok) /\ UNCHANGED <<jobVars, netVars, alarmVars, tabLoad, shot, canvas, tryLock, upd, stopCtl>>
    \/ \E c \in Callers : LoopDelayOver(c) /\ UNCHANGED <<jobVars, netVars, alarmVars, tabLoad, shot, canvas, tryLock, upd, stopCtl>>
    \/ Tick /\ UNCHANGED <<jobVars, netVars, loopVars, alarmVars, tabLoad, shot, canvas, tryLock, upd, stopCtl>>

SpecLoop == Init /\ [][NextLoop]_vars

(* One agent instance: its polling loop, and the job it dispatches         *)
(* followed through processUrl                                             *)
Runner == 1
RunJob == 1

(* Completions of chrome.storage and chrome.tabs.remove calls              *)
RunPlatformStep ==
    \/ AcquireCheckStorage(Runner) /\ LoopAfter(Runner) /\ UNCHANGED <<jobVars, netVars, alarmVars, tabLoad, shot, canvas, tryLock, upd, stopCtl>>
    \/ AcquireSetStorage(Runner) /\ LoopAfter(Runner) /\ UNCHANGED <<jobVars, netVars, alarmVars, tabLoad, shot, canvas, tryLock, upd, stopCtl>>
    \/ ReleaseCheckStorage(Runner) /\ LoopAfter(Runner) /\ UNCHANGED <<jobVars, netVars, alarmVars, tabLoad, shot, canvas, tryLock, upd, stopCtl>>
    \/ ReleaseRemoveStorage(Runner) /\ LoopAfter(Runner) /\ UNCHANGED <<jobVars, netVars, alarmVars, tabLoad, shot, canvas, tryLock, upd, stopCtl>>
    \/ SetProcessingState(RunJob) /\ StartTimeStored
                                 /\ UNCHANGED <<lockVars, netVars, loopVars, alarm, tabLoad, shot, canvas, tryLock, upd, stopCtl>>
    \/ BeginRace(RunJob) /\ UNCHANGED <<lockVars, netVars, loopVars, alarmVars, tabLoad, shot, canvas, tryLock, upd, stopCtl>>
    \/ TabRemoveSettled(RunJob) /\ UNCHANGED <<lockVars, netVars, loopVars, alarmVars, tabLoad, shot, canvas, tryLock, upd, stopCtl>>
    \/ ResetState(RunJob) /\ UNCHANGED <<lockVars, netVars, loopVars, alarmVars, tabLoad, shot, canvas, tryLock, upd, stopCtl>>
    \/ EndProcessUrl(RunJob) /\ UNCHANGED <<lockVars, netVars, loopVars, alarmVars, tabLoad, shot, canvas, tryLock, upd, stopCtl>>
    \/ ProcessUrlReturns(Runner, RunJob) /\ UNCHANGED <<jobVars, netVars, alarmVars, tabLoad, shot, canvas, tryLock, upd, stopCtl>>

(* Timers: the hard timeout, the 2000 ms delay, the inter-poll delay       *)
RunTimerStep ==
    \/ JobTick /\ UNCHANGED <<lockVars, netVars, loopVars, alarmVars, tabLoad, shot, canvas, tryLock, upd, stopCtl>>
    \/ TimerFires(RunJob) /\ UNCHANGED <<lockVars, netVars, loopVars, alarmVars, tabLoad, shot, canvas, tryLock, upd, stopCtl>>
    \/ DelayOver(RunJob) /\ UNCHANGED <<lockVars, netVars, loopVars, alarmVars, tabLoad, shot, canvas, tryLock, upd, stopCtl>>
    \/ LoopDelayOver(Runner) /\ UNCHANGED <<jobVars, netVars, alarmVars, tabLoad, shot, canvas, tryLock, upd, stopCtl>>

(* HTTP requests to the control server settle                              *)
RunHttpStep ==
    \/ \E r \in FetchResults \ {"ok_url"} :
          FetchSettles(Runner, r, 0) /\ UNCHANGED <<jobVars, netVars, alarmVars, tabLoad, shot, canvas, tryLock, upd, stopCtl>>
    \/ \E cap \in BOOLEAN :
          /\ FetchSettles(Runner, "ok_url", RunJob)
          /\ StartProcessUrl(RunJob, cap)
          /\ UNCHANGED <<netVars, alarmVars, tabLoad, shot, canvas, tryLock, upd, stopCtl>>
    \/ \E ok \in BOOLEAN : Submitted(RunJob, ok) /\ UNCHANGED <<lockVars, netVars, loopVars, alarmVars, tabLoad, shot, canvas, tryLock, upd, stopCtl>>
    \/ \E ok \in BOOLEAN : ReportSettled(RunJob, ok) /\ UNCHANGED <<lockVars, netVars, loopVars, alarmVars, tabLoad, shot, canvas, tryLock, upd, stopCtl>>
    \/ \E ok \in BOOLEAN : PollReportSettles(Runner, ok) /\ UNCHANGED <<jobVars, netVars, alarmVars, tabLoad, shot, canvas, tryLock, upd, stopCtl>>

(* The browser and the page: these may never answer                        *)
RunPageStep ==
    \/ \E ok \in BOOLEAN : TabCreated(RunJob, ok) /\ UNCHANGED <<lockVars, netVars, loopVars, alarmVars, tabLoad, shot, canvas, tryLock, upd, stopCtl>>
    \/ \E ok \in BOOLEAN : TabLoaded(RunJob, ok) /\ UNCHANGED <<lockVars, netVars, loopVars, alarmVars, tabLoad, shot, canvas, tryLock, upd, stopCtl>>
    \/ \E ok \in BOOLEAN : Extracted(RunJob, ok) /\ UNCHANGED <<lockVars, netVars, loopVars, alarmVars, tabLoad, shot, canvas, tryLock, upd, stopCtl>>
    \/ \E ok \in BOOLEAN : Captured(RunJob, ok) /\ UNCHANGED <<lockVars, netVars, loopVars, alarmVars, tabLoad, shot, canvas, tryLock, upd, stopCtl>>
    \/ TabGone(RunJob) /\ UNCHANGED <<lockVars, netVars, loopVars, alarmVars, tabLoad, shot, canvas, tryLock, upd, stopCtl>>

NextRun ==
    \/ StartContinuousPolling(Runner) /\ UNCHANGED <<jobVars, netVars, alarmVars, tabLoad, shot, canvas, tryLock, upd, stopCtl>>
    \/ StopContinuousPolling(instOf[Runner]) /\ UNCHANGED <<lockVars, jobVars, netVars, alarmVars, tabLoad, shot, canvas, tryLock, upd, stopCtl>>
    \/ RunPlatformStep
    \/ RunTimerStep
    \/ RunHttpStep
    \/ RunPageStep

SpecRun == InitJobOnly /\ [][NextRun]_vars

(* Timers fire, HTTP requests settle, storage and tab-removal calls return *)
LiveRun ==
    /\ InitJobOnly
    /\ [][NextRun]_vars
    /\ WF_vars(RunPlatformStep)
    /\ WF_vars(RunTimerStep)
    /\ WF_vars(RunHttpStep)

(* One agent instance with its backup alarm; no stop request is made.      *)
(* chrome.storage calls of the lock may fail.                              *)
NextBackup ==
    \/ StartContinuousPolling(Runner) /\ UNCHANGED <<jobVars, netVars, alarmVars, tabLoad, shot, canvas, tryLock, upd, stopCtl>>
    \/ RunPlatformStep
    \/ RunTimerStep
    \/ RunHttpStep
    \/ RunPageStep
    \/ PollServerThrows(Runner) /\ UNCHANGED <<jobVars, netVars, alarmVars, tabLoad, shot, canvas, tryLock, upd, stopCtl>>
    \/ AlarmFires /\ UNCHANGED <<netVars, tabLoad, shot, canvas, tryLock, upd, stopCtl>>
    \/ \E hasUrl \in BOOLEAN : AlarmSettings(Runner, hasUrl) /\ UNCHANGED <<netVars, tabLoad, shot, canvas, tryLock, upd, stopCtl>>
    \/ AlarmSaved(Runner) /\ UNCHANGED <<netVars, tabLoad, shot, canvas, tryLock, upd, stopCtl>>
    \/ AlarmGotState(Runner) /\ UNCHANGED <<netVars, tabLoad, shot, canvas, tryLock, upd, stopCtl>>
    \/ AlarmCleared(Runner) /\ UNCHANGED <<netVars, tabLoad, shot, canvas, tryLock, upd, stopCtl>>
    \/ AlarmClearSaved(Runner) /\ UNCHANGED <<netVars, tabLoad, shot, canvas, tryLock, upd, stopCtl>>
    \/ AgeTick /\ UNCHANGED <<netVars, tabLoad, shot, canvas, tryLock, upd, stopCtl>>

SpecBackup == InitJobOnly /\ [][NextBackup]_vars


(* One agent instance and its processUrl calls, the last one included      *)
NextTabs ==
    \/ \E j \in JobSlots : \E cap \in BOOLEAN : StartProcessUrl(j, cap) /\ UNCHANGED <<lockVars, netVars, loopVars, alarmVars, tabLoad, shot, canvas, tryLock, upd, stopCtl>>
    \/ \E j \in JobSlots : SetProcessingState(j) /\ StartTimeStored /\ UNCHANGED <<lockVars, netVars, loopVars, alarm, tabLoad, shot, canvas, tryLock, upd, stopCtl>>
    \/ \E j \in JobSlots : BeginRace(j) /\ UNCHANGED <<lockVars, netVars, loopVars, alarmVars, tabLoad, shot, canvas, tryLock, upd, stopCtl>>
    \/ \E j \in JobSlots : TimerFires(j) /\ UNCHANGED <<lockVars, netVars, loopVars, alarmVars, tabLoad, shot, canvas, tryLock, upd, stopCtl>>
    \/ \E j \in JobSlots : \E ok \in BOOLEAN : TabCreated(j, ok) /\ UNCHANGED <<lockVars, netVars, loopVars, alarmVars, tabLoad, shot, canvas, tryLock, upd, stopCtl>>
    \/ \E j \in JobSlots : \E ok \in BOOLEAN : TabLoaded(j, ok) /\ UNCHANGED <<lockVars, netVars, loopVars, alarmVars, tabLoad, shot, canvas, tryLock, upd, stopCtl>>
    \/ \E j \in JobSlots : \E ok \in BOOLEAN : Extracted(j, ok) /\ UNCHANGED <<lockVars, netVars, loopVars, alarmVars, tabLoad, shot, canvas, tryLock, upd, stopCtl>>
    \/ \E j \in JobSlots : DelayOver(j) /\ UNCHANGED <<lockVars, netVars, loopVars, alarmVars, tabLoad, shot, canvas, tryLock, upd, stopCtl>>
    \/ \E j \in JobSlots : \E ok \in BOOLEAN : Captured(j, ok) /\ UNCHANGED <<lockVars, netVars, loopVars, alarmVars, tabLoad, shot, canvas, tryLock, upd, stopCtl>>
    \/ \E j \in JobSlots : \E ok \in BOOLEAN : Submitted(j, ok) /\ UNCHANGED <<lockVars, netVars, loopVars, alarmVars, tabLoad, shot, canvas, tryLock, upd, stopCtl>>
    \/ \E j \in JobSlots : TabGone(j) /\ UNCHANGED <<lockVars, netVars, loopVars, alarmVars, tabLoad, shot, canvas, tryLock, upd, stopCtl>>
    \/ \E j \in JobSlots : \E ok \in BOOLEAN : ReportSettled(j, ok) /\ UNCHANGED <<lockVars, netVars, loopVars, alarmVars, tabLoad, shot, canvas, tryLock, upd, stopCtl>>
    \/ \E j \in JobSlots : TabRemoveSettled(j) /\ UNCHANGED <<lockVars, netVars, loopVars, alarmVars, tabLoad, shot, canvas, tryLock, upd, stopCtl>>
    \/ \E j \in JobSlots : ResetState(j) /\ UNCHANGED <<lockVars, netVars, loopVars, alarmVars, tabLoad, shot, canvas, tryLock, upd, stopCtl>>
    \/ \E j \in JobSlots : EndProcessUrl(j) /\ UNCHANGED <<lockVars, netVars, loopVars, alarmVars, tabLoad, shot, canvas, tryLock, upd, stopCtl>>
    \/ JobTick /\ UNCHANGED <<lockVars, netVars, loopVars, alarmVars, tabLoad, shot, canvas, tryLock, upd, stopCtl>>

SpecTabs == InitJobOnly /\ [][NextTabs]_vars

(* One processUrl call with its waitForTabLoad; the URL of the job parses, *)
(* and the wait for network idle is the tracker's (SpecNet): here it is    *)
(* started, and resolves or not.  The page-load timer (30 s) fires before  *)
(* JobTickMs pass.                                                         *)
NextLoad ==
    \/ \E cap \in BOOLEAN : StartProcessUrl(RunJob, cap)
          /\ UNCHANGED <<lockVars, netVars, loopVars, alarmVars, tabLoad, shot, canvas, tryLock, upd, stopCtl>>
    \/ SetProcessingState(RunJob) /\ StartTimeStored
          /\ UNCHANGED <<lockVars, netVars, loopVars, alarm, tabLoad, shot, canvas, tryLock, upd, stopCtl>>
    \/ BeginRace(RunJob) /\ UNCHANGED <<lockVars, netVars, loopVars, alarmVars, tabLoad, shot, canvas, tryLock, upd, stopCtl>>
    \/ TimerFires(RunJob) /\ UNCHANGED <<lockVars, netVars, loopVars, alarmVars, tabLoad, shot, canvas, tryLock, upd, stopCtl>>
    \/ TabCreated(RunJob, TRUE) /\ WaitForTabLoad
          /\ UNCHANGED <<lockVars, netVars, loopVars, alarmVars, shot, canvas, tryLock, upd, stopCtl>>
    \/ TabCreated(RunJob, FALSE)
          /\ UNCHANGED <<lockVars, netVars, loopVars, alarmVars, tabLoad, shot, canvas, tryLock, upd, stopCtl>>
    \/ TabComplete(RunJob) /\ UNCHANGED <<lockVars, netVars, loopVars, alarmVars, shot, canvas, tryLock, upd, stopCtl>>
    \/ PageLoadTimeout /\ UNCHANGED <<lockVars, netVars, loopVars, alarmVars, shot, canvas, tryLock, upd, stopCtl>>
    \/ tabLoad.waits > 0 /\ TabLoaded(RunJob, TRUE)
          /\ UNCHANGED <<lockVars, netVars, loopVars, alarmVars, tabLoad, shot, canvas, tryLock, upd, stopCtl>>
    \/ \E ok \in BOOLEAN : Extracted(RunJob, ok)
          /\ UNCHANGED <<lockVars, netVars, loopVars, alarmVars, tabLoad, shot, canvas, tryLock, upd, stopCtl>>
    \/ DelayOver(RunJob) /\ UNCHANGED <<lockVars, netVars, loopVars, alarmVars, tabLoad, shot, canvas, tryLock, upd, stopCtl>>
    \/ \E ok \in BOOLEAN : Captured(RunJob, ok)
          /\ UNCHANGED <<lockVars, netVars, loopVars, alarmVars, tabLoad, shot, canvas, tryLock, upd, stopCtl>>
    \/ \E ok \in BOOLEAN : Submitted(RunJob, ok)
          /\ UNCHANGED <<lockVars, netVars, loopVars, alarmVars, tabLoad, shot, canvas, tryLock, upd, stopCtl>>
    \/ TabGone(RunJob) /\ UNCHANGED <<lockVars, netVars, loopVars, alarmVars, tabLoad, shot, canvas, tryLock, upd, stopCtl>>
    \/ \E ok \in BOOLEAN : ReportSettled(RunJob, ok)
          /\ UNCHANGED <<lockVars, netVars, loopVars, alarmVars, tabLoad, shot, canvas, tryLock, upd, stopCtl>>
    \/ TabRemoveSettled(RunJob)
          /\ UNCHANGED <<lockVars, netVars, loopVars, alarmVars, tabLoad, shot, canvas, tryLock, upd, stopCtl>>
    \/ ResetState(RunJob) /\ UNCHANGED <<lockVars, netVars, loopVars, alarmVars, tabLoad, shot, canvas, tryLock, upd, stopCtl>>
    \/ EndProcessUrl(RunJob) /\ UNCHANGED <<lockVars, netVars, loopVars, alarmVars, tabLoad, shot, canvas, tryLock, upd, stopCtl>>
    \/ tabLoad.timer # "armed" /\ JobTick
          /\ UNCHANGED <<lockVars, netVars, loopVars, alarmVars, tabLoad, shot, canvas, tryLock, upd, stopCtl>>

SpecLoad == InitJobOnly /\ [][NextLoad]_vars

(* One takeScreenshot request, from the message to the composed image     *)
NextShot ==
    \/ \E h \in PageHeights : \E v \in ViewportHeights :
          TakeScreenshot(h, v)
          /\ UNCHANGED <<lockVars, jobVars, netVars, loopVars, alarmVars, tabLoad, canvas, tryLock, upd, stopCtl>>
    \/ \E res \in CaptureResults :
          CaptureAnswers(res)
          /\ UNCHANGED <<lockVars, jobVars, netVars, loopVars, alarmVars, tabLoad, canvas, tryLock, upd, stopCtl>>
    \/ ScrollDelayOver
          /\ UNCHANGED <<lockVars, jobVars, netVars, loopVars, alarmVars, tabLoad, canvas, tryLock, upd, stopCtl>>
    \/ \E ok \in BOOLEAN :
          ComposeTiles(ok)
          /\ UNCHANGED <<lockVars, jobVars, netVars, loopVars, alarmVars, tabLoad, canvas, tryLock, upd, stopCtl>>

SpecShot == InitJobOnly /\ [][NextShot]_vars

(* One job whose capture stage is the capture loop: captureFullPage sends  *)
(* takeScreenshot to the tab (backgroundScreenshotHandler.js line 35), the *)
(* content script of the tab runs the loop while the tab is open, and the  *)
(* response settles captureFullPage (lines 36-83) and with it the capture  *)
(* stage of the pipeline (part_002 lines 801-808)                          *)
NextCapture ==
    \/ \E cap \in BOOLEAN : StartProcessUrl(RunJob, cap) /\ UNCHANGED <<lockVars, netVars, loopVars, alarmVars, tabLoad, shot, canvas, tryLock, upd, stopCtl>>
    \/ SetProcessingState(RunJob) /\ StartTimeStored
          /\ UNCHANGED <<lockVars, netVars, loopVars, alarm, tabLoad, shot, canvas, tryLock, upd, stopCtl>>
    \/ BeginRace(RunJob) /\ UNCHANGED <<lockVars, netVars, loopVars, alarmVars, tabLoad, shot, canvas, tryLock, upd, stopCtl>>
    \/ TimerFires(RunJob) /\ UNCHANGED <<lockVars, netVars, loopVars, alarmVars, tabLoad, shot, canvas, tryLock, upd, stopCtl>>
    \/ \E ok \in BOOLEAN : TabCreated(RunJob, ok) /\ UNCHANGED <<lockVars, netVars, loopVars, alarmVars, tabLoad, shot, canvas, tryLock, upd, stopCtl>>
    \/ \E ok \in BOOLEAN : TabLoaded(RunJob, ok) /\ UNCHANGED <<lockVars, netVars, loopVars, alarmVars, tabLoad, shot, canvas, tryLock, upd, stopCtl>>
    \/ \E ok \in BOOLEAN : Extracted(RunJob, ok) /\ UNCHANGED <<lockVars, netVars, loopVars, alarmVars, tabLoad, shot, canvas, tryLock, upd, stopCtl>>
    \/ DelayOver(RunJob) /\ UNCHANGED <<lockVars, netVars, loopVars, alarmVars, tabLoad, shot, canvas, tryLock, upd, stopCtl>>
    \/ \E h \in PageHeights : \E v \in ViewportHeights :
          /\ job[RunJob].pipe = "capture" /\ job[RunJob].tabState = "open"
          /\ TakeScreenshot(h, v)
          /\ UNCHANGED jobVars /\ UNCHANGED <<lockVars, netVars, loopVars, alarmVars, tabLoad, canvas, tryLock, upd, stopCtl>>
    \/ \E res \in CaptureResults :
          /\ job[RunJob].tabState = "open"
          /\ CaptureAnswers(res)
          /\ UNCHANGED jobVars /\ UNCHANGED <<lockVars, netVars, loopVars, alarmVars, tabLoad, canvas, tryLock, upd, stopCtl>>
    \/ /\ job[RunJob].tabState = "open"
       /\ ScrollDelayOver
       /\ UNCHANGED jobVars /\ UNCHANGED <<lockVars, netVars, loopVars, alarmVars, tabLoad, canvas, tryLock, upd, stopCtl>>
    \/ \E ok \in BOOLEAN :
          /\ ComposeTiles(ok)
          /\ Captured(RunJob, shot'.result = "image")
          /\ UNCHANGED <<lockVars, netVars, loopVars, alarmVars, tabLoad, canvas, tryLock, upd, stopCtl>>
    \/ /\ job[RunJob].tabState # "open"
       /\ Captured(RunJob, FALSE)
       /\ UNCHANGED <<lockVars, netVars, loopVars, alarmVars, tabLoad, shot, canvas, tryLock, upd, stopCtl>>
    \/ \E ok \in BOOLEAN : Submitted(RunJob, ok) /\ UNCHANGED <<lockVars, netVars, loopVars, alarmVars, tabLoad, shot, canvas, tryLock, upd, stopCtl>>
    \/ TabGone(RunJob) /\ UNCHANGED <<lockVars, netVars, loopVars, alarmVars, tabLoad, shot, canvas, tryLock, upd, stopCtl>>
    \/ \E ok \in BOOLEAN : ReportSettled(RunJob, ok) /\ UNCHANGED <<lockVars, netVars, loopVars, alarmVars, tabLoad, shot, canvas, tryLock, upd, stopCtl>>
    \/ TabRemoveSettled(RunJob) /\ UNCHANGED <<lockVars, netVars, loopVars, alarmVars, tabLoad, shot, canvas, tryLock, upd, stopCtl>>
    \/ ResetState(RunJob) /\ UNCHANGED <<lockVars, netVars, loopVars, alarmVars, tabLoad, shot, canvas, tryLock, upd, stopCtl>>
    \/ EndProcessUrl(RunJob) /\ UNCHANGED <<lockVars, netVars, loopVars, alarmVars, tabLoad, shot, canvas, tryLock, upd, stopCtl>>
    \/ JobTick /\ UNCHANGED <<lockVars, netVars, loopVars, alarmVars, tabLoad, shot, canvas, tryLock, upd, stopCtl>>

SpecCapture == InitJobOnly /\ [][NextCapture]_vars

(* The composition of one list of images                                   *)
NextCompose ==
    \/ \E images \in TileLists : SizeCanvas(images)
          /\ UNCHANGED <<lockVars, jobVars, netVars, loopVars, alarmVars, tabLoad, shot, tryLock, upd, stopCtl>>
    \/ DrawImage /\ UNCHANGED <<lockVars, jobVars, netVars, loopVars, alarmVars, tabLoad, shot, tryLock, upd, stopCtl>>
    \/ \E ok \in BOOLEAN : ConvertToBlob(ok)
          /\ UNCHANGED <<lockVars, jobVars, netVars, loopVars, alarmVars, tabLoad, shot, tryLock, upd, stopCtl>>

SpecCompose == InitJobOnly /\ [][NextCompose]_vars

(* acquireLock and releaseLock of two callers over a store whose calls can *)
(* fail                                                                    *)
NextStore ==
    \/ \E c \in Callers : CallAcquire(c) /\ UNCHANGED <<jobVars, netVars, loopVars, alarmVars, tabLoad, shot, canvas, tryLock, upd, stopCtl>>
    \/ \E c \in Callers : AcquireCheckStorage(c) /\ UNCHANGED <<jobVars, netVars, loopVars, alarmVars, tabLoad, shot, canvas, tryLock, upd, stopCtl>>
    \/ \E c \in Callers : AcquireSetStorage(c) /\ UNCHANGED <<jobVars, netVars, loopVars, alarmVars, tabLoad, shot, canvas, tryLock, upd, stopCtl>>
    \/ \E c \in Callers : CallRelease(c) /\ UNCHANGED <<jobVars, netVars, loopVars, alarmVars, tabLoad, shot, canvas, tryLock, upd, stopCtl>>
    \/ \E c \in Callers : ReleaseCheckStorage(c) /\ UNCHANGED <<jobVars, netVars, loopVars, alarmVars, tabLoad, shot, canvas, tryLock, upd, stopCtl>>
    \/ \E c \in Callers : ReleaseRemoveStorage(c) /\ UNCHANGED <<jobVars, netVars, loopVars, alarmVars, tabLoad, shot, canvas, tryLock, upd, stopCtl>>
    \/ \E c \in Callers : StorageFails(c) /\ UNCHANGED <<jobVars, netVars, loopVars, alarmVars, tabLoad, shot, canvas, tryLock, upd, stopCtl>>
    \/ Tick /\ UNCHANGED <<jobVars, netVars, loopVars, alarmVars, tabLoad, shot, canvas, tryLock, upd, stopCtl>>

SpecStore == Init /\ [][NextStore]_vars

(* One tryAcquireLock call                                                 *)
NextTry ==
    \/ \E m \in 0..MaxRetriesArg : \E d \in 0..MaxDelayArg :
          TryAcquireLock(m, d) /\ UNCHANGED <<lockVars, jobVars, netVars, loopVars, alarmVars, tabLoad, shot, canvas, upd, stopCtl>>
    \/ \E res \in {"token", "null", "threw"} :
          AcquireLockSettles(res) /\ UNCHANGED <<lockVars, jobVars, netVars, loopVars, alarmVars, tabLoad, shot, canvas, upd, stopCtl>>
    \/ RetryDelayTick /\ UNCHANGED <<lockVars, jobVars, netVars, loopVars, alarmVars, tabLoad, shot, canvas, upd, stopCtl>>
    \/ RetryDelayOver /\ UNCHANGED <<lockVars, jobVars, netVars, loopVars, alarmVars, tabLoad, shot, canvas, upd, stopCtl>>

SpecTry == InitJobOnly /\ [][NextTry]_vars

(* Two callers (one or two instances) calling updateState on one resource *)
NextUpdate ==
    \/ \E c \in Callers : CallWithLock(c) /\ UNCHANGED upd /\ UNCHANGED <<jobVars, netVars, loopVars, alarmVars, tabLoad, shot, canvas, tryLock, stopCtl>>
    \/ \E c \in Callers : AcquireCheckStorage(c) /\ UNCHANGED upd /\ UNCHANGED <<jobVars, netVars, loopVars, alarmVars, tabLoad, shot, canvas, tryLock, stopCtl>>
    \/ \E c \in Callers : AcquireSetStorage(c) /\ UNCHANGED upd /\ UNCHANGED <<jobVars, netVars, loopVars, alarmVars, tabLoad, shot, canvas, tryLock, stopCtl>>
    \/ \E c \in Callers : UpdateBegins(c) /\ UNCHANGED lockVars /\ UNCHANGED <<jobVars, netVars, loopVars, alarmVars, tabLoad, shot, canvas, tryLock, stopCtl>>
    \/ \E c \in Callers : UpdateGotState(c) /\ UNCHANGED lockVars /\ UNCHANGED <<jobVars, netVars, loopVars, alarmVars, tabLoad, shot, canvas, tryLock, stopCtl>>
    \/ \E c \in Callers : \E res \in {"state", "undefined", "threw"} :
          UpdateFnSettles(c, res) /\ UNCHANGED lockVars /\ UNCHANGED <<jobVars, netVars, loopVars, alarmVars, tabLoad, shot, canvas, tryLock, stopCtl>>
    \/ \E c \in Callers : UpdateSetState(c) /\ UNCHANGED lockVars /\ UNCHANGED <<jobVars, netVars, loopVars, alarmVars, tabLoad, shot, canvas, tryLock, stopCtl>>
    \/ \E c \in Callers : \E o \in {"fn_ok", "fn_error"} : UpdateEnds(c, o) /\ UNCHANGED <<jobVars, netVars, loopVars, alarmVars, tabLoad, shot, canvas, tryLock, stopCtl>>
    \/ \E c \in Callers : ReleaseCheckStorage(c) /\ UNCHANGED upd /\ UNCHANGED <<jobVars, netVars, loopVars, alarmVars, tabLoad, shot, canvas, tryLock, stopCtl>>
    \/ \E c \in Callers : ReleaseRemoveStorage(c) /\ UNCHANGED upd /\ UNCHANGED <<jobVars, netVars, loopVars, alarmVars, tabLoad, shot, canvas, tryLock, stopCtl>>
    \/ Tick /\ UNCHANGED upd /\ UNCHANGED <<jobVars, netVars, loopVars, alarmVars, tabLoad, shot, canvas, tryLock, stopCtl>>

SpecUpdate == Init /\ [][NextUpdate]_vars

(* One agent instance: the loop and its job, the backup alarm while it is  *)
(* scheduled, and one stop_polling request after which no start request,   *)
(* install or startup event comes                                          *)
NextStop ==
    \/ ~stopCtl.stopped /\ StartContinuousPolling(Runner)
          /\ UNCHANGED <<jobVars, netVars, alarmVars, tabLoad, shot, canvas, tryLock, upd, stopCtl>>
    \/ StopPolling(instOf[Runner])
          /\ UNCHANGED <<lockVars, jobVars, netVars, alarmVars, tabLoad, shot, canvas, tryLock, upd>>
    \/ RunPlatformStep
    \/ RunTimerStep
    \/ RunHttpStep
    \/ RunPageStep
    \/ stopCtl.alarmSet /\ AlarmFires /\ UNCHANGED <<netVars, tabLoad, shot, canvas, tryLock, upd, stopCtl>>
    \/ \E hasUrl \in BOOLEAN : AlarmSettings(Runner, hasUrl) /\ UNCHANGED <<netVars, tabLoad, shot, canvas, tryLock, upd, stopCtl>>
    \/ AlarmSaved(Runner) /\ UNCHANGED <<netVars, tabLoad, shot, canvas, tryLock, upd, stopCtl>>
    \/ AlarmGotState(Runner) /\ UNCHANGED <<netVars, tabLoad, shot, canvas, tryLock, upd, stopCtl>>

SpecStop == InitJobOnly /\ [][NextStop]_vars

----
(***************************************************************************)
(* Properties                                                              *)
(***************************************************************************)

(* C1: two agent instances are never both between a successful acquisition *)
(* of the 'polling' lock in pollServer and its release.                    *)
C1_PollingMutualExclusion ==
    \A c, d \in Callers :
        (c # d /\ instOf[c] # instOf[d]) => ~(pc[c] = "cs" /\ pc[d] = "cs")

(* C2: of two acquireLock calls made while no record can have aged to the  *)
(* timeout and with no release in between (the two calls are the whole     *)
(* history), exactly one returns a token and the other returns null.       *)
C2_ExactlyOneToken ==
    \A c, d \in Callers :
        ( /\ c # d
          /\ op[c] = "acquire" /\ op[d] = "acquire"
          /\ pc[c] = "idle" /\ pc[d] = "idle"
          /\ nextToken = 3
          /\ store.age < DefaultTimeout )
        => ((ret[c] = "token") # (ret[d] = "token"))

(* C3: a releaseLock whose token is not the token of the current durable   *)
(* record returns false without issuing the remove and leaves the durable  *)
(* record unchanged; its entry step removes the cache entry exactly when   *)
(* that entry carries the supplied token.                                  *)
C3_ReleaseNotOwner ==
    [][\A c \in Callers :
        /\ (pc[c] = "rel_get" /\ pc'[c] # "rel_get" /\ store.id # lockId[c])
           => /\ store' = store
              /\ pc'[c] = "idle"
              /\ op[c] = "release" => (ret'[c] = "false" /\ ~wrote'[c])
        /\ (pc[c] # "rel_get" /\ pc'[c] = "rel_get")
           => memoryLocks'[instOf[c]] =
                 IF memoryLocks[instOf[c]].id = lockId'[c]
                 THEN NoLock ELSE memoryLocks[instOf[c]]
    ]_vars

(* C3 witness: a release with a token that another holder has reclaimed    *)
(* returned false                                                          *)
C3_Witness ==
    \E c \in Callers :
        /\ op[c] = "release" /\ pc[c] = "idle" /\ ret[c] = "false"
        /\ store.id # 0 /\ store.id # held[c]

(* C4: an acquireLock that begins while the durable record is stale and    *)
(* runs without a competitor returns a new token, and then the caller's    *)
(* cache entry and the durable record both carry it; also when the         *)
(* caller's own cache held a (stale) entry.                                *)
C4_StaleReclaimable ==
    \A c \in Callers :
        (op[c] = "acquire" /\ pc[c] = "idle" /\ staleAtCall[c] # "no" /\ alone[c])
        => /\ ret[c] = "token"
           /\ held[c] # 0
           /\ \A d \in Callers \ {c} : held[d] # held[c]
           /\ store.id = held[c]
           /\ memoryLocks[instOf[c]].id = held[c]

(* C4 witness: a stale record was reclaimed by a caller whose own cache    *)
(* held a stale entry                                                      *)
C4_Witness ==
    \E c \in Callers :
        /\ op[c] = "acquire" /\ pc[c] = "idle" /\ alone[c]
        /\ staleAtCall[c] = "store_and_cache"
        /\ ret[c] = "token" /\ store.id = held[c]

(* C5: withLock calls releaseLock exactly once, with the acquired token,   *)
(* after fn returned or threw and before withLock itself settles, and its  *)
(* outcome is fn's result or fn's error.                                   *)
C5_WithLockReleases ==
    \A c \in Callers :
        op[c] = "withLock" =>
            /\ pc[c] # "idle" => ret[c] = "none"
            /\ pc[c] \in {"acq_get", "acq_set", "fn"} => relCount[c] = 0
            /\ pc[c] \in {"rel_get", "rel_remove"}
               => relCount[c] = 1 /\ lockId[c] = held[c] /\ fnRes[c] # "none"
            /\ (pc[c] = "idle" /\ ret[c] # "acquire_error")
               => /\ relCount[c] = 1
                  /\ fnRes[c] \in {"fn_ok", "fn_error"}
                  /\ ret[c] = fnRes[c]

(* C5 witness: fn threw, the lock was released once, fn's error came out   *)
C5_Witness ==
    \E c \in Callers :
        /\ op[c] = "withLock" /\ pc[c] = "idle"
        /\ ret[c] = "fn_error" /\ relCount[c] = 1 /\ store.id = 0

(* C6 (as claimed): a withLock whose acquisition fails throws without      *)
(* invoking fn or releaseLock, and leaves the durable record and the       *)
(* current holder's cache entry as they were.                              *)
C6_FailFastUnchanged ==
    \A c \in Callers :
        op[c] = "withLock" =>
            /\ pc[c] \in {"fn", "rel_get", "rel_remove"} => held[c] # 0
            /\ (pc[c] = "idle" /\ ret[c] = "acquire_error")
               => /\ fnRes[c] = "none"
                  /\ relCount[c] = 0
                  /\ ~wrote[c]
                  /\ (alone[c] /\ snapMem[c].id = store.id)
                     => memoryLocks[instOf[c]] =
                           [id |-> snapMem[c].id, age |-> snapMem[c].age]

(* C6 (amended): as above, but a cache entry that was already stale when   *)
(* the call began is discarded by the failed attempt.                      *)
C6_FailFast ==
    \A c \in Callers :
        op[c] = "withLock" =>
            /\ pc[c] \in {"fn", "rel_get", "rel_remove"} => held[c] # 0
            /\ (pc[c] = "idle" /\ ret[c] = "acquire_error")
               => /\ fnRes[c] = "none"
                  /\ relCount[c] = 0
                  /\ ~wrote[c]
                  /\ alone[c] =>
                       memoryLocks[instOf[c]] =
                          IF snapMem[c].stale THEN NoLock
                          ELSE [id |-> snapMem[c].id, age |-> snapMem[c].age]

(* C6 witness: a withLock failed on a lock held by a quiescent holder      *)
C6_Witness ==
    \E c \in Callers :
        /\ op[c] = "withLock" /\ pc[c] = "idle" /\ ret[c] = "acquire_error"
        /\ alone[c] /\ store.id # 0
(* C7: when a processUrl call is over, its cleanup has run exactly once:   *)
(* the state reset was done once and the tab created for the job, if any,  *)
(* was handed to chrome.tabs.remove exactly once.                          *)
C7_CleanupExactlyOnce ==
    \A j \in Jobs :
        job[j].main = "done" =>
            /\ job[j].resetCalls = 1
            /\ job[j].tabState # "none" => job[j].removeCalls = 1

(* C8: the durable processing record is present while processUrl executes  *)
(* and absent once processUrl has returned or thrown.                      *)
C8_ProcessingStateLifecycle ==
    /\ \A j \in Jobs :
          job[j].main \in {"save_begin", "race", "report", "remove_tab",
                           "reset_state", "save_end"}
          => states["processing"] = j
    /\ ( /\ \E j \in Jobs : job[j].main = "done"
         /\ \A j \in Jobs : job[j].main \in {"new", "done"} )
       => states["processing"] = 0

(* C9: processUrl's outcome is that of whichever of pipeline and timer     *)
(* settled first (it resumes at that settlement), and a timer that fires   *)
(* after the race is settled changes nothing but the timer itself.         *)
C9_RaceFirstWins ==
    /\ [](\A j \in Jobs :
            /\ job[j].winner = "none"
               => /\ job[j].main \in {"new", "set_state", "save_begin", "race"}
                  /\ job[j].outcome = "none"
            /\ job[j].winner # "none"
               => /\ job[j].main \notin {"new", "set_state", "save_begin", "race"}
                  /\ job[j].outcome = job[j].winner)
    /\ [][\A j \in Jobs :
            (job[j].timer = "armed" /\ job'[j].timer = "fired" /\ job[j].race # "pending")
            => /\ job' = [job EXCEPT ![j].timer = "fired"]
               /\ UNCHANGED <<states, isProcessing, saved>>]_vars

(* C9 witness: the timer won, processUrl ended with the timeout error, and *)
(* the abandoned pipeline succeeded afterwards                             *)
C9_Witness ==
    \E j \in Jobs :
        /\ job[j].main = "done" /\ job[j].outcome = "rej_timeout"
        /\ job[j].pipe = "resolved"

(* C10: once a timed-out processUrl call is over and its abandoned         *)
(* pipeline has ended, no tab created for the job is still open.           *)
C10_TimedOutTabRemoved ==
    \A j \in Jobs :
        ( /\ job[j].main = "done" /\ job[j].outcome = "rej_timeout"
          /\ job[j].pipe \in {"resolved", "rejected"} )
        => job[j].tabState # "open"

(* C12: waitForNetworkIdle resolves if and only if a quiet span of at      *)
(* least quietPeriod was seen before the timeout: it is not resolved       *)
(* before quietPeriod has elapsed, and a periodic check that completes an  *)
(* unbroken run of quiet observations spanning quietPeriod before the      *)
(* timeout resolves it.                                                    *)
C12_ResolvesIffQuiet ==
    /\ wait.st = "resolved" => wait.elapsed >= QuietPeriod
    /\ ( /\ wait.st = "pending" /\ wait.interval
         /\ wait.elapsed > 0 /\ wait.elapsed < NetworkTimeout )
       => ~(obsRun # -1 /\ obsRun >= QuietPeriod)

(* C13: once the elapsed time has reached the timeout and the periodic     *)
(* checks have stopped, the promise is settled: rejected unless the idle   *)
(* branch resolved it.                                                     *)
C13_TimeoutRejects ==
    (wait.st # "none" /\ ~wait.interval)
    => /\ wait.st \in {"resolved", "rejected"}
       /\ wait.ended = "timeout" => wait.st = "rejected"

(* C14: when waitForNetworkIdle resolves, every periodic check of the      *)
(* final span of length quietPeriod saw count <= maxActiveRequests (a      *)
(* check that sees more restarts the quiet period).                        *)
C14_RiseResetsQuiet ==
    wait.st = "resolved" => (obsRun # -1 /\ obsRun >= QuietPeriod)

(* C15: after the wait is over, on the idle and on the timeout outcome,    *)
(* the tracker has no active-request set and no target origin for the tab, *)
(* the interval is cleared, and request events arriving later leave it so. *)
C15_TrackingDiscarded ==
    wait.ended # "no"
    => /\ ~wait.interval
       /\ targetUrls[JobTab] = "none"
       /\ activeRequests[JobTab] = NoRequests

(* C15 witness: the wait ended by timeout and a same-origin request        *)
(* started afterwards                                                      *)
C15_Witness ==
    wait.ended = "timeout" /\ wait.late /\ activeRequests[JobTab] = NoRequests

(* C16: the active set of a tab is exactly the set of request ids with a   *)
(* start event of the target origin and no complete or error event of the  *)
(* target origin since setTargetUrl; a tab without a target has no active  *)
(* requests; the count is never negative.                                  *)
C16_ActiveSetExact ==
    \A t \in Tabs :
        /\ activeRequests[t].ids = started[t]
        /\ targetUrls[t] = "none" => activeRequests[t] = NoRequests
        /\ ~activeRequests[t].has => activeRequests[t].ids = {}
        /\ Count(t) >= 0

(* C16 witness: a request of the target origin is active and a complete    *)
(* event for an unknown request created an empty set earlier               *)
C16_Witness ==
    /\ targetUrls[JobTab] # "none"
    /\ Cardinality(activeRequests[JobTab].ids) = MaxReqs
    /\ activeRequests[OtherTab] = NoRequests

(* C17: within one agent instance at most one invocation of                *)
(* startContinuousPolling is inside its while loop (in pollServer or in    *)
(* the inter-poll delay) at any moment.                                    *)
C17_SingleLoop ==
    \A c, d \in Callers :
        (c # d /\ instOf[c] = instOf[d])
        => ~(loop[c].at # "out" /\ loop[d].at # "out")

(* C18: once the polling lock is held, a 204 response and an aborted       *)
(* fetch dispatch no job and make pollServer return true; any other        *)
(* transport error makes it return false, upon which the loop ends and     *)
(* the run flag is cleared.  The fetch is only in flight with the lock.    *)
C18_PollOutcome ==
    /\ [](\A c \in Callers : loop[c].body = "fetch" => (pc[c] = "cs" /\ held[c] # 0))
    /\ [][\A c \in Callers :
            (loop[c].at = "poll" /\ pc[c] # "idle" /\ pc'[c] = "idle")
            => /\ loop[c].resp \in {"204", "abort"}
                  => (ret'[c] = "continue" /\ loop[c].jobs = 0)
               /\ loop[c].resp \in {"neterr", "http_error"}
                  => /\ ret'[c] = "stop"
                     /\ loop[c].jobs = 0
                     /\ loop'[c].at = "out"
                     /\ ~isContinuousPolling'[instOf[c]]
       ]_vars

(* C18 witness: a poll ended by a transport error stopped its loop         *)
C18_Witness ==
    \E c \in Callers :
        /\ loop[c].at = "out" /\ op[c] = "poll" /\ ret[c] = "stop"
        /\ ~isContinuousPolling[instOf[c]]

(* C19: a pollServer that could not acquire the polling lock within the    *)
(* retries issues no get_url request, dispatches no job, raises no error,  *)
(* and does not stop the loop: with the run flag set, the flag stays set   *)
(* and the loop goes on to its delay.                                      *)
C19_ContentionSkips ==
    [][\A c \in Callers :
         (loop[c].at = "poll" /\ pc[c] # "idle" /\ pc'[c] = "idle" /\ held'[c] = 0)
         => /\ loop[c].fetches = 0 /\ loop[c].jobs = 0
            /\ ret'[c] \in {"skip", "continue"}
            /\ isContinuousPolling[instOf[c]]
               => (isContinuousPolling'[instOf[c]] /\ loop'[c].at = "delay")
    ]_vars

C21_ReleaseOnEveryPath ==
    [][\A c \in Callers :
         /\ (pc[c] = "cs" /\ pc'[c] # "cs")
            => /\ pc'[c] = "rel_get"
               /\ relCount'[c] = 1
               /\ held[c] # 0 /\ lockId'[c] = held[c]
               /\ loop[c].job # 0 => job[loop[c].job].main = "done"
         /\ (relCount'[c] # relCount[c] /\ relCount'[c] # 0) => pc[c] = "cs"
         /\ (loop[c].at = "poll" /\ pc[c] # "idle" /\ pc'[c] = "idle")
            => IF held[c] # 0
               THEN relCount'[c] = 1 /\ pc[c] \in {"rel_get", "rel_remove"}
               ELSE relCount'[c] = 0
    ]_vars

(* C21 witness: a poll whose job failed and whose fetch of the next        *)
(* iteration hit a transport error have both returned through the release  *)
C21_Witness ==
    \E c \in Callers :
        /\ pc[c] = "idle" /\ op[c] = "poll" /\ ret[c] = "stop" /\ relCount[c] = 1
        /\ \E j \in released : job[j].outcome = "rej_pipeline"

(* C22: the run flag isContinuousPolling of an instance is never set while *)
(* no invocation of startContinuousPolling is inside its loop (so that the *)
(* next backup alarm restarts a loop that ended without a stop request).   *)
C22_FlagMeansLoopRuns ==
    \A i \in Instances :
        isContinuousPolling[i]
        => \E c \in Callers : instOf[c] = i /\ loop[c].at # "out"

(* C23: on the restart path of the alarm listener, a processing record     *)
(* older than 600000 ms is removed, isProcessing is set to false and that  *)
(* value is persisted, all before startContinuousPolling is called; a      *)
(* record that is absent or not older than 600000 ms is left as it is and  *)
(* the loop is restarted at once.                                          *)
C23_StaleStateCleared ==
    [][LET c == Runner
           restarted == /\ isContinuousPolling'[instOf[c]]
                        /\ ~isContinuousPolling[instOf[c]] => loop'[c].at = "poll"
           notYet == loop' = loop /\ isContinuousPolling' = isContinuousPolling
       IN  /\ (alarm.pc = "get_state" /\ alarm' # alarm)
              => IF states["processing"] # 0 /\ procAge > 600000
                 THEN alarm'.pc = "clear" /\ notYet
                 ELSE /\ alarm'.pc = "idle" /\ restarted
                      /\ states' = states /\ procAge' = procAge
                      /\ isProcessing' = isProcessing /\ saved' = saved
           /\ (alarm.pc = "clear" /\ alarm' # alarm)
              => /\ states'["processing"] = 0 /\ ~isProcessing'
                 /\ alarm'.pc = "save_cleared" /\ notYet
           /\ (alarm.pc = "save_cleared" /\ alarm' # alarm)
              => alarm'.pc = "idle" /\ ~saved' /\ restarted
           /\ (alarm' # alarm /\ alarm.pc \notin {"clear", "save_cleared"})
              => states' = states /\ isProcessing' = isProcessing
    ]_vars

(* C23 witness: the listener found a stale record, cleared it, persisted   *)
(* isProcessing = false and restarted the loop                             *)
C23_Witness ==
    /\ alarm.pc = "idle" /\ alarm.seen = "stale"
    /\ states["processing"] = 0 /\ ~isProcessing /\ ~saved
    /\ loop[Runner].at = "poll" /\ isContinuousPolling[instOf[Runner]]

C25_StageOrder ==
    [][\A j \in Jobs :
         LET p == job[j].pipe
             q == job'[j].pipe
             StageSteps ==
                 {<<"none", "create">>, <<"create", "load">>, <<"load", "extract">>,
                  <<"extract", "delay">>, <<"delay", "capture">>, <<"delay", "submit">>,
                  <<"capture", "submit">>, <<"submit", "resolved">>}
                 \cup {<<st, "rejected">> :
                          st \in {"create", "load", "extract", "capture", "submit"}}
         IN  /\ q # p => <<p, q>> \in StageSteps
             /\ (p = "delay" /\ q # p) => (q = "capture") = job[j].capture
             /\ job'[j].submits # job[j].submits
                => /\ job'[j].submits = 1 /\ q = "submit"
                   /\ p = IF job[j].capture THEN "capture" ELSE "delay"
             /\ (q = "submit" /\ p # q) => job'[j].submits = job[j].submits + 1
             /\ (q = "rejected" /\ p # q)
                => job'[j].race \in {"rej_pipeline", "rej_timeout"}
             /\ job'[j].race = "fulfilled" => (q = "resolved" /\ job'[j].submits = 1)
             /\ job'[j].capture # job[j].capture => p = "none"
    ]_vars

(* C25 witness: a text-only job reached Done: submitted without capture    *)
C25_Witness ==
    \E j \in Jobs :
        /\ job[j].main = "done" /\ job[j].outcome = "fulfilled"
        /\ ~job[j].capture /\ job[j].pipe = "resolved" /\ job[j].submits = 1

(* C26: in an agent instance at most one tab that processUrl created is    *)
(* open (created and neither removed nor gone) at any moment.              *)
C26_SingleRenderTarget ==
    Cardinality({j \in JobSlots : job[j].tabState = "open"}) <= 1

(* C27: waitForTabLoad starts the wait for network idle at most once per   *)
(* job, and what starts it is either the first 'complete' report of the    *)
(* tab or the expiry of the page-load timer, never both; the pipeline goes *)
(* on to extraction only after the wait was started; the expiry of the     *)
(* page-load timer does not fail the job: the pipeline stays in its load   *)
(* stage, the race stays as it was.                                        *)
C27_NestedDeadlines ==
    /\ [](/\ tabLoad.waits <= 1
          /\ (tabLoad.waits = 1) = (tabLoad.loadResult # "none")
          /\ job[RunJob].pipe \in {"extract", "delay", "capture", "submit", "resolved"}
             => tabLoad.waits = 1)
    /\ [][/\ tabLoad'.waits # tabLoad.waits
             => /\ tabLoad.waits = 0 /\ tabLoad.loadResult = "none"
                /\ tabLoad.listener = "on" /\ tabLoad'.listener = "removed"
                /\ tabLoad'.timer # "armed"
                /\ \/ tabLoad'.loadResult = "complete" /\ tabLoad.timer = "armed"
                      /\ tabLoad'.timer = "cleared"
                   \/ tabLoad'.loadResult = "timeout" /\ tabLoad.timer = "armed"
                      /\ tabLoad'.timer = "fired"
          /\ (tabLoad.loadResult # "none" => tabLoad'.loadResult = tabLoad.loadResult)
          /\ (tabLoad.timer = "armed" /\ tabLoad'.timer = "fired")
             => job' = job /\ tabLoad'.loadResult = "timeout"
       ]_vars

(* C27 witness: the page never reported 'complete', the page-load timer    *)
(* started the idle wait, and the job was submitted and ended fulfilled    *)
C27_Witness ==
    /\ tabLoad.loadResult = "timeout" /\ tabLoad.waits = 1
    /\ job[RunJob].main = "done" /\ job[RunJob].outcome = "fulfilled"

(* C28: when every capture request is answered with an image, the loop     *)
(* ends with exactly max(1, ceil(H / V)) tiles: the pre-capture test       *)
(* capturedHeight + V >= H was false for every tile but the last and true  *)
(* for the last, after which no capture request is sent; the handler that  *)
(* tests after the capture collects the same number of tiles.              *)
C28_TileCount ==
    LET H == shot.scrollHeight
        V == shot.clientHeight
        ceil == (H + V - 1) \div V
        expected == IF ceil < 1 THEN 1 ELSE ceil
    IN  /\ shot.failedAt = 0
           => /\ shot.captures <= expected
              /\ \A k \in 1..Len(shot.lastFlags) : shot.lastFlags[k] = (k = expected)
              /\ shot.pc \in {"responded", "settled"}
                 => /\ shot.captures = expected
                    /\ Len(shot.images) = expected
                    /\ shot.responses = 1
        /\ shot.pc # "idle" => CaptureAndScrollAfter(0, V, H) = expected

(* C28 witness: a page of 5 units and a viewport of 2 (2500 and 1000 px)   *)
(* gave three tiles                                                        *)
C28_Witness ==
    /\ shot.pc = "responded" /\ shot.failedAt = 0
    /\ shot.scrollHeight = 5 /\ shot.clientHeight = 2
    /\ shot.images = <<1, 2, 3>>

(* C29: when a capture request fails (an error or no image) after k >= 1   *)
(* tiles were collected, no capture request and no scroll follows, one     *)
(* response is sent and it carries exactly the tiles 1..k in capture       *)
(* order; captureFullPage does not reject it as empty, and the image it    *)
(* composes is made of those k tiles.                                      *)
C29_PartialResult ==
    shot.failedAt >= 2
    => LET k == shot.failedAt - 1
       IN  /\ shot.pc \in {"responded", "settled"}
           /\ shot.captures = shot.failedAt
           /\ shot.scrolls = k
           /\ shot.responses = 1
           /\ shot.images = [i \in 1..k |-> i]
           /\ shot.result # "no_images"
           /\ shot.result = "image" => shot.composed = [i \in 1..k |-> i]

(* C29 witness: the third capture request failed on a page that needs more *)
(* than two tiles, and the two tiles collected were composed               *)
C29_Witness ==
    /\ shot.failedAt = 3 /\ shot.pc = "settled"
    /\ shot.scrollHeight > 2 * shot.clientHeight
    /\ shot.result = "image" /\ shot.composed = <<1, 2>>

(* C30: captureFullPage rejects with 'No images captured' exactly when the *)
(* first capture request failed, the response then carrying no tile; the   *)
(* job then never submits, its processUrl ends rejected and the error is   *)
(* reported once.  When a later capture request failed, the tiles          *)
(* collected are composed and the job goes on to the submit stage.         *)
C30_FatalOnlyWithoutTiles ==
    LET r == job[RunJob]
    IN  /\ shot.result = "no_images" <=> (shot.pc = "settled" /\ shot.failedAt = 1)
        /\ shot.failedAt = 1 /\ shot.pc \in {"responded", "settled"}
           => shot.images = <<>>
        /\ shot.result = "no_images"
           => /\ r.pipe = "rejected" /\ r.submits = 0
              /\ r.race \in {"rej_pipeline", "rej_timeout"}
              /\ r.winner = "rej_pipeline" => r.race = "rej_pipeline"
              /\ r.reports = 1
              /\ r.main = "done" => r.outcome = r.race /\ r.reported # "none"
        /\ shot.failedAt >= 2 /\ shot.result = "image"
           => r.submits = 1 /\ r.pipe \in {"submit", "resolved", "rejected"}

(* C30 witness: the first capture request failed, captureFullPage rejected *)
(* and processUrl ended with the pipeline's error, reported to the server  *)
C30_Witness ==
    /\ shot.failedAt = 1 /\ shot.result = "no_images"
    /\ job[RunJob].main = "done" /\ job[RunJob].outcome = "rej_pipeline"
    /\ job[RunJob].reported = "sent" /\ job[RunJob].submits = 0

(* C31: once every image of a non-empty list of n images is drawn, the     *)
(* canvas is as wide as the first image and n times as high as the first   *)
(* image, and image i (counted from 0, in the order of the list) was drawn *)
(* exactly once, at x = 0 and y = i times the height of the first image;   *)
(* when all images have the height of the first one, each drawn image ends *)
(* where the next begins and the last ends at the bottom of the canvas.    *)
C31_CanvasGeometry ==
    LET n == Len(canvas.images)
        first == canvas.images[1]
        sameHeight == \A i \in 1..n : canvas.images[i].height = first.height
    IN  /\ canvas.pc # "idle"
           => /\ canvas.width = first.width
              /\ canvas.height = first.height * n
              /\ \A k \in 1..Len(canvas.drawn) :
                    /\ canvas.drawn[k].image = k
                    /\ canvas.drawn[k].x = 0
                    /\ canvas.drawn[k].y = (k - 1) * first.height
        /\ canvas.pc \in {"encode", "done", "failed"}
           => /\ Len(canvas.drawn) = n
              /\ sameHeight
                 => /\ \A k \in 1..(n - 1) :
                          canvas.drawn[k].y + canvas.drawn[k].height = canvas.drawn[k + 1].y
                    /\ canvas.drawn[n].y + canvas.drawn[n].height = canvas.height

(* C31 witness: three images of one size were composed into an image       *)
C31_Witness ==
    /\ canvas.pc = "done" /\ Len(canvas.images) = 3
    /\ \A i \in 1..3 : canvas.images[i] = [width |-> 2, height |-> 2]
    /\ canvas.height = 6 /\ canvas.drawn[3].y = 4

(* C32: a step that removes the durable record is the remove of a          *)
(* releaseLock call whose supplied token is the token of the record that   *)
(* is removed: a record written by another holder after the ownership read *)
(* of releaseLock is not deleted.                                          *)
C32_ReleaseRemovesOwnRecordOnly ==
    [][(store.id # 0 /\ store'.id = 0)
        => \E c \in Callers :
              /\ pc[c] = "rel_remove" /\ pc'[c] = "idle"
              /\ lockId[c] = store.id]_vars

(* C33: an acquireLock call made while the cache of the caller's instance  *)
(* holds an entry younger than the timeout returns null at once: the call  *)
(* issues no read of the durable store (it is never suspended at the       *)
(* storage get), and the store and every cache are as before.              *)
C33_FastPath ==
    [][nextToken' # nextToken
        => /\ \A c \in Callers :
                 (pc[c] # "acq_get" /\ pc'[c] = "acq_get")
                 => ~(/\ memoryLocks[instOf[c]].id # 0
                      /\ memoryLocks[instOf[c]].age < DefaultTimeout)
           /\ (\A c \in Callers : pc'[c] = pc[c])
              => /\ store' = store
                 /\ memoryLocks' = memoryLocks
                 /\ \E c \in Callers :
                       /\ pc[c] = "idle"
                       /\ memoryLocks[instOf[c]].id # 0
                       /\ memoryLocks[instOf[c]].age < DefaultTimeout
                       /\ ret'[c] \in {"null", "acquire_error"}
                       /\ lockId'[c] = 0 /\ held'[c] = 0]_vars

(* C33 witness: an acquireLock call returned null while the cache entry of *)
(* another call of the same instance, not yet aged out, was in place and   *)
(* the durable store had no record                                         *)
C33_Witness ==
    \E c, d \in Callers :
        /\ c # d /\ instOf[c] = instOf[d]
        /\ op[c] = "acquire" /\ pc[c] = "idle" /\ ret[c] = "null"
        /\ pc[d] = "acq_get" /\ store.id = 0
        /\ memoryLocks[instOf[c]].id = lockId[d]
        /\ memoryLocks[instOf[c]].age < DefaultTimeout

(* C34: an acquireLock attempt that ends after its storage read without    *)
(* going on to the write either found a record younger than the timeout    *)
(* under another token and returns null, or the read failed and the error  *)
(* reaches the caller; an attempt whose write fails throws as well.  In    *)
(* each case the durable record is as before and the cache of the caller's *)
(* instance holds no entry afterwards.  An attempt never goes on to the    *)
(* write past a record younger than the timeout.                           *)
C34_Rollback ==
    [][\A c \in Callers :
         /\ (pc[c] = "acq_get" /\ pc'[c] = "idle")
            => /\ store' = store
               /\ memoryLocks'[instOf[c]].id = 0
               /\ held'[c] = 0
               /\ ret'[c] \in {"null", "threw"}
               /\ ret'[c] = "null"
                  => /\ store.id # 0 /\ store.age < DefaultTimeout
                     /\ store.id # lockId[c]
         /\ (pc[c] = "acq_get" /\ pc'[c] = "acq_set")
            => ~(store.id # 0 /\ store.age < DefaultTimeout)
         /\ (pc[c] = "acq_set" /\ pc'[c] = "idle" /\ ret'[c] # "token")
            => /\ ret'[c] = "threw"
               /\ store' = store
               /\ memoryLocks'[instOf[c]].id = 0
               /\ held'[c] = 0]_vars

(* C34 witness: an attempt was turned away by the record of the other      *)
(* instance, which is still in the store, and the caller's cache is empty  *)
C34_Witness ==
    \E c, d \in Callers :
        /\ instOf[c] # instOf[d]
        /\ op[c] = "acquire" /\ pc[c] = "idle" /\ ret[c] = "null"
        /\ held[d] # 0 /\ store.id = held[d] /\ store.age < DefaultTimeout
        /\ memoryLocks[instOf[c]].id = 0

(* C35: tryAcquireLock calls acquireLock at most maxRetries times; it      *)
(* returns a token as soon as a call hands one back, and makes no call     *)
(* after that; between two consecutive calls it has waited retryDelay or   *)
(* longer, once; it returns null after maxRetries calls that handed back   *)
(* null, having made one delay fewer than calls, and with maxRetries = 0   *)
(* it returns null without any call.                                       *)
C35_BoundedRetries ==
    LET t == tryLock
    IN  /\ t.calls <= t.maxRetries
        /\ t.pc = "delay" => t.calls < t.maxRetries
        /\ Len(t.waits) = (IF t.pc = "delay" THEN t.calls - 1
                           ELSE IF t.calls = 0 THEN 0 ELSE t.calls - 1)
        /\ \A k \in 1..Len(t.waits) : t.waits[k] >= t.retryDelay
        /\ t.ret = "token" => t.pc = "returned" /\ t.tokenAt = t.calls
        /\ (t.pc = "returned" /\ t.ret = "null")
           => /\ t.calls = t.maxRetries
              /\ Len(t.waits) = (IF t.maxRetries = 0 THEN 0 ELSE t.maxRetries - 1)
        /\ t.pc = "returned" => t.ret \in {"token", "null"}

(* C35 witness: three attempts failed, two delays were taken, null is      *)
(* returned                                                                *)
C35_Witness ==
    /\ tryLock.pc = "returned" /\ tryLock.ret = "null"
    /\ tryLock.maxRetries = 3 /\ tryLock.calls = 3
    /\ tryLock.retryDelay = 2 /\ tryLock.waits = <<2, 2>>

(* C36: no update of updateState is lost: every setState that was applied  *)
(* wrote the successor of the state written by the setState applied before *)
(* it, so the stored state is the number of writes applied.                *)
C36_NoLostUpdate == upd.state = upd.writes

(* C37: once a stop_polling request has been handled, and as long as no    *)
(* start request, install or startup event follows, no pollServer call is  *)
(* started: a loop that is awaiting pollServer may finish that call, but   *)
(* no invocation of startContinuousPolling goes from outside the loop or   *)
(* from the inter-poll delay to a new poll.                                *)
C37_StopIsFinal ==
    [][\A c \in Callers :
         (stopCtl.stopped /\ loop[c].at # "poll") => loop'[c].at # "poll"]_vars

(* C38: for the job a poll dispatched, the POSTs to /report_error sent by  *)
(* processUrl and by pollServer together are at most one.                  *)
C38_SingleErrorReport ==
    \A c \in Callers :
        loop[c].job # 0
        => job[loop[c].job].reports
             + (IF loop[c].body = "report" \/ loop[c].report # "none" THEN 1 ELSE 0) <= 1

(* C39: once processUrl has sent the /report_error POST of a job, no POST  *)
(* to /submit is issued for that job.                                      *)
C39_NoSubmitAfterReport ==
    [][\A j \in Jobs :
         job[j].reports >= 1 => job'[j].submits = job[j].submits]_vars

(* C40: the takeScreenshot handler calls sendResponse once per request,    *)
(* whether the loop ends at the last tile or at a failed capture request;  *)
(* the list it sends holds the tiles collected, in the order of capture,   *)
(* and tile i (counted from 0) was captured with the window scrolled to    *)
(* i times the viewport height.                                            *)
C40_OneResponseTilesInOrder ==
    /\ shot.responses <= 1
    /\ shot.pc \in {"responded", "settled"} <=> shot.responses = 1
    /\ shot.responses = 1 => shot.images = shot.capturedImages
    /\ \A k \in 1..Len(shot.capturedImages) : shot.capturedImages[k] = k
    /\ Len(shot.offsets) = Len(shot.capturedImages)
    /\ \A k \in 1..Len(shot.offsets) : shot.offsets[k] = (k - 1) * shot.clientHeight
====
